---- MODULE Spec2Model ----
(***************************************************************************)
(* Verification model of the map-reprojection extension:                   *)
(*   - ReprojectionOperation and ReprojectableImageManager                 *)
(*     (src/src/ReprojectableImageManager.ts),                             *)
(*   - the reproject generator (src/src/reproject.ts),                     *)
(*   - the content script's consumer loop that drives one conversion.      *)
(*                                                                         *)
(* The specifications are defined over the same variables:                 *)
(*   Spec     the manager and its operations called directly, in any       *)
(*            order, as the unit tests call them;                          *)
(*   SpecRun  the manager driven by the consumer loop and the generator,   *)
(*            with user clicks arriving only while the loop is suspended   *)
(*            (JavaScript's single-threaded scheduling).                   *)
(*   SpecRunFair  SpecRun with the conversion task's steps scheduled       *)
(*            fairly;                                                      *)
(*   SpecImages  the managers of two images called directly;               *)
(*   SpecPure the pure functions called on drawn inputs.                   *)
(***************************************************************************)
EXTENDS Integers, Sequences, FiniteSets, TLC

VARIABLES manager, lastCall, task, driver, managers

vars == <<manager, lastCall, task, driver, managers>>

(***************************************************************************)
(* Bounds of the model.                                                    *)
(***************************************************************************)
\* operations one manager creates in a behaviour
MaxOps == 2
\* progress updates direct calls deliver in a behaviour (Spec only)
MaxUpdates == 1
\* largest destination width and height a run draws
MaxDim == 2
\* performance.now() is read in multiples of ClockStep ms, up to MaxClock ms
\* after the run began
ClockStep == 500
MaxClock == 1500

(***************************************************************************)
(* Program constants.                                                      *)
(***************************************************************************)
\* reproject.ts:170  currentTime - lastYieldTime >= 1000
YieldIntervalMs == 1000

(***************************************************************************)
(* Values.                                                                 *)
(***************************************************************************)
InProgress == "in-progress"
Completed == "completed"
Failed == "failed"
Aborted == "aborted"

OperationState == {InProgress, Completed, Failed, Aborted}
TerminalState == {Completed, Failed, Aborted}

\* An image source is a token <<operation, pixelsCalculated>>: the data URL of
\* the canvas the operation's driver yielded after that many pixels.  The
\* image the page delivered is <<0, 0>>; distinct frames are distinct tokens.
PageImageSrc == <<0, 0>>
\* the source the page delivered for its i-th further image
PageImageSrcOf(i) == <<0, i>>
\* canvas.toDataURL() of a chunk of operation o: the canvas has totalPixels
\* pixels, of which pixelsCalculated are computed
FrameSrc(o, chunk) == <<o, chunk.pixelsCalculated, chunk.totalPixels>>

\* A progress fraction p/t is the pair <<p, t>>, t > 0.
Fraction(p, t) == <<p, t>>
Zero == Fraction(0, 1)
FractionLeq(f, g) == f[1] * g[2] <= g[1] * f[2]

\* p / t is one number however it is written: fractions are kept in lowest
\* terms
RECURSIVE Gcd(_, _)
Gcd(a, b) == IF b = 0 THEN a ELSE Gcd(b, a % b)
Reduced(f) == LET g == Gcd(f[1], f[2]) IN Fraction(f[1] \div g, f[2] \div g)

\* the argument of the last onUpdate invocation, before the first one
NoFraction == <<>>

\* `${Math.round(fraction * 100)}%` (Math.round rounds half up)
PercentText(f) == ToString((200 * f[1] + f[2]) \div (2 * f[2])) \o "%"

Last(s) == s[Len(s)]
Pop(s) == SubSeq(s, 1, Len(s) - 1)

(***************************************************************************)
(* The manager is one record: the image element's src, the manager's       *)
(* fields, the indicator's DOM state, and the heap of the operations it    *)
(* created (operation o is heap[o]; `operations` lists their ids).         *)
(* `thrown` is the exception the last call ended with, "none" if it        *)
(* returned.                                                               *)
(***************************************************************************)
Throw(m, e) == [m EXCEPT !.thrown = e]
Enter(m) == [m EXCEPT !.thrown = "none"]

\* new ReprojectableImageManager(image)
NewManager(src) ==
  [ imageSrc |-> src,
    originalImageSrc |-> src,
    isInitialized |-> FALSE,
    operations |-> <<>>,
    heap |-> <<>>,
    className |-> "none",
    subtitle |-> "",
    updateInterval |-> FALSE,
    thrown |-> "none" ]

\* the caller-supplied abort capability: () => abortController.abort()
Abort(m, o) == [m EXCEPT !.heap[o].abortRequested = TRUE]

\* the onUpdate closure of startReprojectionOperation; the callback's
\* invocations are counted per operation and its last argument is kept
OnUpdate(m, o, fraction) ==
  [m EXCEPT !.subtitle = PercentText(fraction),
            !.heap[o].onUpdateCalls = @ + 1,
            !.heap[o].progress = Reduced(fraction)]

ShowSpinner(m) ==
  [m EXCEPT !.className = "state-spinner", !.subtitle = "0%", !.updateInterval = TRUE]

ShowRevertButton(m) ==
  [m EXCEPT !.className = "state-revert", !.subtitle = "Revert", !.updateInterval = TRUE]

ShowError(m) ==
  [m EXCEPT !.className = "state-error", !.subtitle = "Error", !.updateInterval = TRUE]

Hide(m) ==
  [m EXCEPT !.className = "state-hidden", !.updateInterval = FALSE]

UpdateView(m) ==
  IF m.operations = <<>> THEN Hide(m)
  ELSE LET state == m.heap[Last(m.operations)].state IN
       CASE state = Completed -> ShowRevertButton(m)
         [] state = Failed -> ShowError(m)
         [] state = InProgress -> ShowSpinner(m)
         [] state = Aborted -> Throw(m, "Error")

\* the onEnd closure of startReprojectionOperation; each invocation is logged
\* with its argument and the state the operation has when it runs
OnEndRestoresOriginal(m, o, result) ==
  LET logged == [m EXCEPT !.heap[o].onEndLog =
                   Append(@, [result |-> result, state |-> m.heap[o].state])]
      ended ==
        CASE result = Completed -> logged
          [] result = Failed -> [logged EXCEPT !.imageSrc = m.originalImageSrc]
          [] result = Aborted ->
               [logged EXCEPT !.imageSrc = m.originalImageSrc,
                              !.operations = Pop(@)]
  IN UpdateView(ended)

OnEndKeepsFailedFrame(m, o, result) ==
  LET logged == [m EXCEPT !.heap[o].onEndLog =
                   Append(@, [result |-> result, state |-> m.heap[o].state])]
      ended ==
        CASE result = Completed -> logged
          [] result = Failed -> logged
          [] result = Aborted ->
               [logged EXCEPT !.imageSrc = m.heap[o].previousImageSrc,
                              !.operations = Pop(@)]
  IN UpdateView(ended)

\* an onEnd that leaves a cancelled operation in the list
OnEndKeepsAborted(m, o, result) ==
  LET logged == [m EXCEPT !.heap[o].onEndLog =
                   Append(@, [result |-> result, state |-> m.heap[o].state])]
      ended ==
        CASE result = Completed -> logged
          [] result = Failed -> [logged EXCEPT !.imageSrc = m.heap[o].previousImageSrc]
          [] result = Aborted ->
               [logged EXCEPT !.imageSrc = m.heap[o].previousImageSrc]
  IN UpdateView(ended)

OnEnd(m, o, result) ==
  LET logged == [m EXCEPT !.heap[o].onEndLog =
                   Append(@, [result |-> result, state |-> m.heap[o].state])]
      ended ==
        CASE result = Completed -> logged
          [] result = Failed -> [logged EXCEPT !.imageSrc = m.heap[o].previousImageSrc]
          [] result = Aborted ->
               [logged EXCEPT !.imageSrc = m.heap[o].previousImageSrc,
                              !.operations = Pop(@)]
  IN UpdateView(ended)

\* a constructor that stores its callbacks and invokes none
NewOperationSilent(m, o, previousImageSrc) ==
  [m EXCEPT !.heap = Append(@,
     [ state |-> InProgress,
       previousImageSrc |-> previousImageSrc,
       abortRequested |-> FALSE,
       onUpdateCalls |-> 0,
       progress |-> NoFraction,
       onEndLog |-> <<>> ])]

\* new ReprojectionOperation(onUpdate, abort, onEnd), allocated as heap[o]
NewOperation(m, o, previousImageSrc) ==
  LET allocated ==
        [m EXCEPT !.heap = Append(@,
           [ state |-> InProgress,
             previousImageSrc |-> previousImageSrc,
             abortRequested |-> FALSE,
             onUpdateCalls |-> 0,
             progress |-> NoFraction,
             onEndLog |-> <<>> ])]
  IN OnUpdate(allocated, o, Zero)

\* an updateProgress that does not look at the state
UpdateProgressUnguarded(m, o, fraction) == OnUpdate(Enter(m), o, fraction)

\* ReprojectionOperation.updateProgress
UpdateProgress(m, o, fraction) ==
  IF m.heap[o].state # InProgress THEN Throw(Enter(m), "AssertionError")
  ELSE OnUpdate(Enter(m), o, fraction)

\* the three terminal transitions share one shape:
\*   assert(in-progress); this._state = s; this.onEnd(this._state)
EndNotifiesBeforeStateChange(m, o, s) ==
  IF m.heap[o].state # InProgress THEN Throw(Enter(m), "AssertionError")
  ELSE LET notified == OnEnd(Enter(m), o, s)
       IN [notified EXCEPT !.heap[o].state = s]

EndWithoutGuard(m, o, s) ==
  LET set == [Enter(m) EXCEPT !.heap[o].state = s]
  IN OnEnd(set, o, set.heap[o].state)

End(m, o, s) ==
  IF m.heap[o].state # InProgress THEN Throw(Enter(m), "AssertionError")
  ELSE LET set == [Enter(m) EXCEPT !.heap[o].state = s]
       IN OnEnd(set, o, set.heap[o].state)

OnAborted(m, o) == End(m, o, Aborted)
OnFailed(m, o) == End(m, o, Failed)
OnComplete(m, o) == End(m, o, Completed)

MaybeInitialize(m) == [m EXCEPT !.isInitialized = TRUE]

\* a start that shows the spinner before it checks for an operation in progress
StartShowsSpinnerFirst(m) ==
  LET shown == ShowSpinner(MaybeInitialize(Enter(m)))
  IN IF ~(m.operations = <<>> \/ m.heap[Last(m.operations)].state # InProgress)
     THEN Throw(shown, "AssertionError")
     ELSE LET o == Len(m.heap) + 1
              created == NewOperation(shown, o, shown.imageSrc)
          IN [created EXCEPT !.operations = Append(@, o)]

\* ReprojectableImageManager.startReprojectionOperation; the operation it
\* returns is heap[Len(heap)] of the result
StartWithoutGuard(m) ==
  LET shown == ShowSpinner(MaybeInitialize(Enter(m)))
      o == Len(m.heap) + 1
      created == NewOperation(shown, o, shown.imageSrc)
  IN [created EXCEPT !.operations = Append(@, o)]

StartOnlyWhenEmpty(m) ==
  IF ~(m.operations = <<>>)
  THEN Throw(Enter(m), "AssertionError")
  ELSE LET shown == ShowSpinner(MaybeInitialize(Enter(m)))
           o == Len(m.heap) + 1
           created == NewOperation(shown, o, shown.imageSrc)
       IN [created EXCEPT !.operations = Append(@, o)]

StartReprojectionOperation(m) ==
  IF ~(m.operations = <<>> \/ m.heap[Last(m.operations)].state # InProgress)
  THEN Throw(Enter(m), "AssertionError")
  ELSE LET shown == ShowSpinner(MaybeInitialize(Enter(m)))
           o == Len(m.heap) + 1
           created == NewOperation(shown, o, shown.imageSrc)
       IN [created EXCEPT !.operations = Append(@, o)]

\* the container's click listener
RevertToPreviousFrame(m) ==
  IF m.operations = <<>> THEN Throw(Enter(m), "AssertionError")
  ELSE LET o == Last(m.operations)
           state == m.heap[o].state
       IN IF state = Aborted THEN Throw(Enter(m), "AssertionError")
          ELSE UpdateView(
                 CASE state = InProgress -> Abort(Enter(m), o)
                   [] state = Failed -> [Enter(m) EXCEPT !.operations = Pop(@)]
                   [] state = Completed ->
                        [Enter(m) EXCEPT !.imageSrc = m.heap[o].previousImageSrc,
                                         !.operations = Pop(@)])

\* a click listener that ends the operation it cancels
OnClickAbortsAtOnce(m) ==
  IF m.operations = <<>> THEN Throw(Enter(m), "AssertionError")
  ELSE LET o == Last(m.operations)
           state == m.heap[o].state
       IN IF state = Aborted THEN Throw(Enter(m), "AssertionError")
          ELSE UpdateView(
                 CASE state = InProgress -> OnAborted(Abort(Enter(m), o), o)
                   [] state = Failed -> [Enter(m) EXCEPT !.operations = Pop(@)]
                   [] state = Completed ->
                        [Enter(m) EXCEPT !.imageSrc = m.originalImageSrc,
                                         !.operations = <<>>])

\* a click listener that also cancels when it dismisses a failed operation
OnClickAbortsFailed(m) ==
  IF m.operations = <<>> THEN Throw(Enter(m), "AssertionError")
  ELSE LET o == Last(m.operations)
           state == m.heap[o].state
       IN IF state = Aborted THEN Throw(Enter(m), "AssertionError")
          ELSE UpdateView(
                 CASE state = InProgress -> Abort(Enter(m), o)
                   [] state = Failed ->
                        [Abort(Enter(m), o) EXCEPT !.operations = Pop(@)]
                   [] state = Completed ->
                        [Enter(m) EXCEPT !.imageSrc = m.originalImageSrc,
                                         !.operations = <<>>])

\* a click listener that does not refresh the indicator
OnClickSkipsUpdateView(m) ==
  IF m.operations = <<>> THEN Throw(Enter(m), "AssertionError")
  ELSE LET o == Last(m.operations)
           state == m.heap[o].state
       IN IF state = Aborted THEN Throw(Enter(m), "AssertionError")
          ELSE CASE state = InProgress -> Abort(Enter(m), o)
                 [] state = Failed -> [Enter(m) EXCEPT !.operations = Pop(@)]
                 [] state = Completed ->
                      [Enter(m) EXCEPT !.imageSrc = m.originalImageSrc,
                                       !.operations = <<>>]

\* a click listener whose revert restores the original image and removes
\* the last operation alone
OnClickRevertsLastOnly(m) ==
  IF m.operations = <<>> THEN Throw(Enter(m), "AssertionError")
  ELSE LET o == Last(m.operations)
           state == m.heap[o].state
       IN IF state = Aborted THEN Throw(Enter(m), "AssertionError")
          ELSE UpdateView(
                 CASE state = InProgress -> Abort(Enter(m), o)
                   [] state = Failed -> [Enter(m) EXCEPT !.operations = Pop(@)]
                   [] state = Completed ->
                        [Enter(m) EXCEPT !.imageSrc = m.originalImageSrc,
                                         !.operations = Pop(@)])

OnClick(m) ==
  IF m.operations = <<>> THEN Throw(Enter(m), "AssertionError")
  ELSE LET o == Last(m.operations)
           state == m.heap[o].state
       IN IF state = Aborted THEN Throw(Enter(m), "AssertionError")
          ELSE UpdateView(
                 CASE state = InProgress -> Abort(Enter(m), o)
                   [] state = Failed -> [Enter(m) EXCEPT !.operations = Pop(@)]
                   [] state = Completed ->
                        [Enter(m) EXCEPT !.imageSrc = m.originalImageSrc,
                                         !.operations = <<>>])

\* the indicator can be clicked when it exists and is displayed
Clickable(m) == m.isInitialized /\ m.className # "state-hidden"

(***************************************************************************)
(* State after construction: a manager for the page's image, nothing       *)
(* running.                                                                *)
(***************************************************************************)
IdleTask == [pc |-> "idle", op |-> 0]

IdleDriver ==
  [ pc |-> "none",
    destWidth |-> 0, destHeight |-> 0,
    x |-> 0, y |-> 0,
    pixelsCalculated |-> 0, totalPixels |-> 0,
    lastYieldTime |-> 0, currentTime |-> 0,
    data |-> <<>>,
    puts |-> 0,
    decided |-> <<>>,
    chunks |-> <<>>,
    projection |-> [blankEvery |-> 0, throwsAt |-> 0],
    error |-> "none" ]

\* lastCall is the method a direct caller (Spec) called last, and on which
\* operation
NoCall == [method |-> "none", op |-> 0]

\* the content script keeps one manager per image element; `manager` is the
\* manager of the image the conversions of Spec and SpecRun work on, and
\* `managers` are those of the page's other images (SpecImages)
ImageIds == {1, 2}

Init ==
  /\ manager = NewManager(PageImageSrc)
  /\ lastCall = NoCall
  /\ task = IdleTask
  /\ driver = IdleDriver
  /\ managers = [i \in ImageIds |-> NewManager(PageImageSrcOf(i))]

(***************************************************************************)
(* Spec: the public methods called directly, on any operation the manager  *)
(* created, in any order.                                                  *)
(***************************************************************************)
Created == 1 .. Len(manager.heap)

\* the fractions direct calls pass to updateProgress
Fractions == {Fraction(1, 2), Fraction(1, 1)}

RECURSIVE UpdatesDelivered(_)
UpdatesDelivered(heap) ==
  IF heap = <<>> THEN 0
  ELSE (Last(heap).onUpdateCalls - 1) + UpdatesDelivered(Pop(heap))

CallStart ==
  /\ Len(StartReprojectionOperation(manager).heap) <= MaxOps
  /\ manager' = StartReprojectionOperation(manager)
  /\ lastCall' = [method |-> "startReprojectionOperation", op |-> 0]
  /\ UNCHANGED <<task, driver, managers>>

CallUpdateProgress ==
  \E o \in Created, f \in Fractions :
    /\ manager' = UpdateProgress(manager, o, f)
    /\ UpdatesDelivered(manager'.heap) <= MaxUpdates
    /\ lastCall' = [method |-> "updateProgress", op |-> o, fraction |-> f]
    /\ UNCHANGED <<task, driver, managers>>

\* operation.abort(): the field is the function the caller passed to
\* startReprojectionOperation, invoked as it is
CallAbort ==
  \E o \in Created :
    /\ manager' = Abort(Enter(manager), o)
    /\ lastCall' = [method |-> "abort", op |-> o]
    /\ UNCHANGED <<task, driver, managers>>

CallOnAborted ==
  \E o \in Created :
    /\ manager' = OnAborted(manager, o)
    /\ lastCall' = [method |-> "onAborted", op |-> o]
    /\ UNCHANGED <<task, driver, managers>>

CallOnFailed ==
  \E o \in Created :
    /\ manager' = OnFailed(manager, o)
    /\ lastCall' = [method |-> "onFailed", op |-> o]
    /\ UNCHANGED <<task, driver, managers>>

CallOnComplete ==
  \E o \in Created :
    /\ manager' = OnComplete(manager, o)
    /\ lastCall' = [method |-> "onComplete", op |-> o]
    /\ UNCHANGED <<task, driver, managers>>

ClickIndicator ==
  /\ Clickable(manager)
  /\ manager' = OnClick(manager)
  /\ lastCall' = [method |-> "click", op |-> 0]
  /\ UNCHANGED <<task, driver, managers>>

Next ==
  \/ CallStart
  \/ CallUpdateProgress
  \/ CallAbort
  \/ CallOnAborted
  \/ CallOnFailed
  \/ CallOnComplete
  \/ ClickIndicator

Spec == Init /\ [][Next]_vars

(***************************************************************************)
(* The reproject generator.                                                *)
(***************************************************************************)
\* A sampling point projected at unit scale: null, or a pair of coordinates
\* that are finite or not.
NullPoint == [null |-> TRUE, finite |-> FALSE, x |-> 0, y |-> 0]
NonFinitePoint == [null |-> FALSE, finite |-> FALSE, x |-> 0, y |-> 0]
FinitePoint(x, y) == [null |-> FALSE, finite |-> TRUE, x |-> x, y |-> y]

SetMin(S) == CHOOSE a \in S : \A b \in S : a <= b
SetMax(S) == CHOOSE a \in S : \A b \in S : a >= b

\* a computeUnitScaleDimensions that discards null points only
ComputeUnitScaleDimensionsKeepsNonFinite(points) ==
  LET kept == {i \in 1 .. Len(points) : ~points[i].null}
      xs == {points[i].x : i \in kept}
      ys == {points[i].y : i \in kept}
  IN IF kept = {}
     THEN [error |-> "could not determine valid projection bounds",
           width |-> 0, height |-> 0]
     ELSE LET width == SetMax(xs) - SetMin(xs)
              height == SetMax(ys) - SetMin(ys)
          IN IF ~(width > 0 /\ height > 0)
             THEN [error |-> "computed unit dimensions must be strictly positive",
                   width |-> width, height |-> height]
             ELSE [error |-> "none", width |-> width, height |-> height]

\* computeUnitScaleDimensions, given the projections of the sampling points
ComputeUnitScaleDimensions(points) ==
  LET kept == {i \in 1 .. Len(points) : ~points[i].null /\ points[i].finite}
      xs == {points[i].x : i \in kept}
      ys == {points[i].y : i \in kept}
  IN IF kept = {}
     THEN [error |-> "could not determine valid projection bounds",
           width |-> 0, height |-> 0]
     ELSE LET width == SetMax(xs) - SetMin(xs)
              height == SetMax(ys) - SetMin(ys)
          IN IF ~(width > 0 /\ height > 0)
             THEN [error |-> "computed unit dimensions must be strictly positive",
                   width |-> width, height |-> height]
             ELSE [error |-> "none", width |-> width, height |-> height]

\* Math.ceil(a / b) for a >= 0, b > 0
CeilDiv(a, b) == (a + b - 1) \div b

\* the messages of the assertions reproject makes before its pixel loop
PreconditionErrors ==
  { "could not determine valid projection bounds",
    "computed unit dimensions must be strictly positive",
    "projection must support inversion",
    "canvas must have 2d context" }

\* a reproject that obtains the destination context lazily, at the first write
SetupDefersContextCheck(sourceWidth, points, projection, hasInvert, has2dContext, now) ==
  LET unit == ComputeUnitScaleDimensions(points)
      destWidth == sourceWidth
      destHeight == IF unit.error = "none"
                    THEN CeilDiv(destWidth * unit.height, unit.width) ELSE 0
      failure ==
        IF unit.error # "none" THEN unit.error
        ELSE IF ~hasInvert THEN "projection must support inversion"
        ELSE IF ~has2dContext THEN "canvas must have 2d context"
        ELSE "none"
  IN [ pc |-> IF failure # "none" THEN "threw" ELSE "pixel",
       destWidth |-> destWidth, destHeight |-> destHeight,
       x |-> 0, y |-> 0,
       pixelsCalculated |-> IF failure = "canvas must have 2d context" THEN 1 ELSE 0,
       totalPixels |-> destWidth * destHeight,
       lastYieldTime |-> now, currentTime |-> now,
       data |-> [i \in 1 .. destWidth * destHeight |-> 0],
       puts |-> 0,
       decided |-> <<>>,
       chunks |-> <<>>,
       projection |-> projection,
       error |-> failure ]

\* reproject up to the pixel loop: the preconditions in the order the code
\* checks them, then the loop's initial state.  `now` is performance.now().
Setup(sourceWidth, points, projection, hasInvert, has2dContext, now) ==
  LET unit == ComputeUnitScaleDimensions(points)
      destWidth == sourceWidth
      destHeight == IF unit.error = "none"
                    THEN CeilDiv(destWidth * unit.height, unit.width) ELSE 0
      failure ==
        IF unit.error # "none" THEN unit.error
        ELSE IF ~hasInvert THEN "projection must support inversion"
        ELSE IF ~has2dContext THEN "canvas must have 2d context"
        ELSE "none"
  IN IF failure # "none"
     THEN [ pc |-> "threw",
            destWidth |-> 0, destHeight |-> 0,
            x |-> 0, y |-> 0,
            pixelsCalculated |-> 0, totalPixels |-> 0,
            lastYieldTime |-> 0, currentTime |-> 0,
            data |-> <<>>,
            puts |-> 0,
            decided |-> <<>>,
            chunks |-> <<>>,
            projection |-> projection,
            error |-> failure ]
     ELSE [ pc |-> "pixel",
            destWidth |-> destWidth, destHeight |-> destHeight,
            x |-> 0, y |-> 0,
            pixelsCalculated |-> 0, totalPixels |-> destWidth * destHeight,
            lastYieldTime |-> now, currentTime |-> now,
            data |-> [i \in 1 .. destWidth * destHeight |-> 0],
            puts |-> 0,
            decided |-> <<>>,
            chunks |-> <<>>,
            projection |-> projection,
            error |-> "none" ]

\* What the projections and the sampler do for one destination pixel.  They
\* are black boxes: the pixel is left blank for one of three reasons, is
\* written with a sample, or a call raises an unexpected error.  A target
\* projection is a function of the pixel: here it raises at its throwsAt-th
\* pixel in row-major order (0: never), gives no sample at every
\* blankEvery-th pixel (0: never), and a sample at the others.
BlankOutcomes == {"inverse-null", "round-trip-mismatch", "source-null"}

PixelOutcomes(d) ==
  LET i == d.y * d.destWidth + d.x + 1
  IN IF d.projection.throwsAt = i THEN {"threw"}
     ELSE IF d.projection.blankEvery > 0 /\ i % d.projection.blankEvery = 0
       THEN BlankOutcomes
     ELSE {"sampled"}

\* the loop's next position after column x of row y
AfterPixel(d) ==
  IF d.x + 1 < d.destWidth THEN [d EXCEPT !.x = @ + 1]
  ELSE [d EXCEPT !.x = 0, !.pc = "row-end"]

\* the pixel at (x, y) has been decided: written, or left blank by a continue
Decide(d) == [d EXCEPT !.decided = Append(@, d.y * d.destWidth + d.x + 1)]

\* one iteration of the inner loop
PixelIgnoresAbort(d, aborted, outcome) ==
  LET counted == [d EXCEPT !.pixelsCalculated = @ + 1]
  IN IF outcome = "threw"
       THEN [counted EXCEPT !.pc = "threw", !.error = "unexpected"]
     ELSE IF outcome = "sampled"
       THEN AfterPixel(Decide([counted EXCEPT !.data[d.y * d.destWidth + d.x + 1] = 1]))
     ELSE AfterPixel(Decide(counted))

\* an iteration that counts the pixels it writes
PixelCountsWritten(d, aborted, outcome) ==
  LET counted == [d EXCEPT !.pixelsCalculated = @ + 1]
  IN IF aborted THEN [d EXCEPT !.pc = "returned"]
     ELSE IF outcome = "threw"
       THEN [d EXCEPT !.pc = "threw", !.error = "unexpected"]
     ELSE IF outcome = "sampled"
       THEN AfterPixel(Decide([counted EXCEPT !.data[d.y * d.destWidth + d.x + 1] = 1]))
     ELSE AfterPixel(Decide(d))

Pixel(d, aborted, outcome) ==
  LET counted == [d EXCEPT !.pixelsCalculated = @ + 1]
  IN IF aborted THEN [counted EXCEPT !.pc = "returned"]
     ELSE IF outcome = "threw"
       THEN [counted EXCEPT !.pc = "threw", !.error = "unexpected"]
     ELSE IF outcome = "sampled"
       THEN AfterPixel(Decide([counted EXCEPT !.data[d.y * d.destWidth + d.x + 1] = 1]))
     ELSE AfterPixel(Decide(counted))

\* a chunk that reports the pixels still to do
ChunkReportsRemaining(d) ==
  [pixelsCalculated |-> d.totalPixels - d.pixelsCalculated, totalPixels |-> d.totalPixels]

\* the value of a yield, without its canvas
Chunk(d) == [pixelsCalculated |-> d.pixelsCalculated, totalPixels |-> d.totalPixels]

\* the outer loop's y++ and test
NextRow(d) ==
  IF d.y + 1 < d.destHeight THEN [d EXCEPT !.y = @ + 1, !.pc = "pixel"]
  ELSE [d EXCEPT !.y = @ + 1, !.pc = "after-loop"]

\* a row end that yields only when more than the interval has passed
RowEndStrictInterval(d, now) ==
  LET read == [d EXCEPT !.currentTime = now]
  IN IF now - d.lastYieldTime > YieldIntervalMs
     THEN [read EXCEPT !.puts = @ + 1,
                       !.chunks = Append(@, Chunk(d)),
                       !.pc = "yielded-row"]
     ELSE NextRow(read)

\* the end of a row: read the clock, and either materialise and yield, or go on
RowEnd(d, now) ==
  LET read == [d EXCEPT !.currentTime = now]
  IN IF now - d.lastYieldTime >= YieldIntervalMs
     THEN [read EXCEPT !.puts = @ + 1,
                       !.chunks = Append(@, Chunk(d)),
                       !.pc = "yielded-row"]
     ELSE NextRow(read)

\* after the loop: materialise and yield the last chunk
FinalYieldSkipped(d) == [d EXCEPT !.pc = "returned"]

FinalYield(d) ==
  [d EXCEPT !.puts = @ + 1,
            !.chunks = Append(@, Chunk(d)),
            !.pc = "yielded-final"]

\* a resumption that leaves the generator suspended
ResumeDriverStaysSuspended(d) == d

\* a resumption that re-enters the row it yielded after
ResumeDriverRestartsRow(d) ==
  IF d.pc = "yielded-row"
  THEN [d EXCEPT !.lastYieldTime = d.currentTime, !.pc = "pixel"]
  ELSE [d EXCEPT !.pc = "returned"]

\* next() on the suspended generator
ResumeDriver(d) ==
  IF d.pc = "yielded-row" THEN NextRow([d EXCEPT !.lastYieldTime = d.currentTime])
  ELSE [d EXCEPT !.pc = "returned"]

(***************************************************************************)
(* The content script's consumer, reprojectIncrementally: it starts an     *)
(* operation, loads the image, iterates the generator, and ends the        *)
(* operation.                                                              *)
(***************************************************************************)
\* the body of the for-await loop, for one yielded chunk
ConsumeChunk(m, o, chunk) ==
  LET updated == UpdateProgress(m, o, Fraction(chunk.pixelsCalculated, chunk.totalPixels))
  IN IF updated.thrown # "none" THEN updated
     ELSE [updated EXCEPT !.imageSrc = FrameSrc(o, chunk)]

\* how the consumer ends the operation once the generator has finished:
\* failed when it threw, aborted when cancellation was requested, completed
\* otherwise
EndOperation(m, o, d) ==
  IF d.pc = "threw" THEN OnFailed(m, o)
  ELSE IF m.heap[o].abortRequested THEN OnAborted(m, o)
  ELSE OnComplete(m, o)

(***************************************************************************)
(* SpecRun: conversions as the extension runs them.  The event loop is     *)
(* free, and so a menu request or a click can be handled, only while no    *)
(* task runs or the task is suspended at an await.                         *)
(***************************************************************************)
EventLoopFree == task.pc \in {"idle", "loading", "awaiting"}

\* the inputs a run draws
SourceWidths == 1 .. MaxDim
ProjectedPoints ==
  {NullPoint, NonFinitePoint, FinitePoint(-1, 0), FinitePoint(0, 1), FinitePoint(1, 1)}
Projections == [blankEvery : {0, 2}, throwsAt : {0, 1, 3}]
SamplingPoints ==
  {<<>>} \cup {<<p>> : p \in ProjectedPoints}
         \cup {<<p, q>> : p \in ProjectedPoints, q \in ProjectedPoints}

\* a projection is chosen from the context menu
Request ==
  /\ EventLoopFree
  /\ Len(StartReprojectionOperation(manager).heap) <= MaxOps
  /\ manager' = StartReprojectionOperation(manager)
  /\ IF manager'.thrown = "none"
     THEN /\ task' = [pc |-> "loading", op |-> Len(manager'.heap)]
          /\ driver' = IdleDriver
     ELSE UNCHANGED <<task, driver, managers>>
  /\ UNCHANGED <<lastCall, managers>>

\* the user clicks the indicator
UserClick ==
  /\ EventLoopFree
  /\ Clickable(manager)
  /\ manager' = OnClick(manager)
  /\ UNCHANGED <<lastCall, task, driver, managers>>

\* the image has loaded; the loop's first next() runs the generator up to
\* its pixel loop.  Only differences of clock readings are used, so the
\* clock's origin is taken to be the first reading.
SetupResults ==
  {Setup(sourceWidth, points, projection, hasInvert, has2dContext, 0) :
     sourceWidth \in SourceWidths, points \in SamplingPoints,
     projection \in Projections,
     hasInvert \in BOOLEAN, has2dContext \in BOOLEAN}

ImageLoaded ==
  /\ task.pc = "loading"
  /\ \E d \in SetupResults : driver' = d
  /\ task' = [task EXCEPT !.pc = "running"]
  /\ UNCHANGED <<manager, lastCall, managers>>

DriverPixel ==
  /\ task.pc = "running"
  /\ driver.pc = "pixel"
  /\ \E outcome \in PixelOutcomes(driver) :
       driver' = Pixel(driver, manager.heap[task.op].abortRequested, outcome)
  /\ UNCHANGED <<manager, lastCall, task, managers>>

\* the clock readings the end of a row can see: not before the last reading
ClockReadings ==
  {t \in 0 .. MaxClock + ClockStep :
     /\ t >= driver.currentTime
     /\ (t - driver.currentTime) % ClockStep = 0
     /\ t - driver.currentTime <= 2 * ClockStep
     /\ driver.currentTime < MaxClock \/ t = driver.currentTime}

DriverRowEnd ==
  /\ task.pc = "running"
  /\ driver.pc = "row-end"
  /\ \E now \in ClockReadings : driver' = RowEnd(driver, now)
  /\ task' = [task EXCEPT !.pc = IF driver'.pc = "yielded-row" THEN "chunk" ELSE "running"]
  /\ UNCHANGED <<manager, lastCall, managers>>

DriverFinalYield ==
  /\ task.pc = "running"
  /\ driver.pc = "after-loop"
  /\ driver' = FinalYield(driver)
  /\ task' = [task EXCEPT !.pc = IF driver'.pc = "yielded-final" THEN "chunk" ELSE "running"]
  /\ UNCHANGED <<manager, lastCall, managers>>

\* the loop body runs for the chunk just yielded, then awaits a timer; an
\* exception in the body leaves the loop as one of the generator does
ConsumerChunk ==
  /\ task.pc = "chunk"
  /\ manager' = ConsumeChunk(manager, task.op, Last(driver.chunks))
  /\ IF manager'.thrown = "none"
     THEN /\ task' = [task EXCEPT !.pc = "awaiting"]
          /\ UNCHANGED <<driver, managers>>
     ELSE /\ task' = [task EXCEPT !.pc = "running"]
          /\ driver' = [driver EXCEPT !.pc = "threw", !.error = "unexpected"]
  /\ UNCHANGED <<lastCall, managers>>

\* the timer fires and the loop calls next()
TimerFires ==
  /\ task.pc = "awaiting"
  /\ driver' = ResumeDriver(driver)
  /\ task' = [task EXCEPT !.pc = "running"]
  /\ UNCHANGED <<manager, lastCall, managers>>

\* the generator has finished or thrown; the consumer ends the operation
ConsumerEnd ==
  /\ task.pc = "running"
  /\ driver.pc \in {"returned", "threw"}
  /\ manager' = EndOperation(manager, task.op, driver)
  /\ task' = IdleTask
  /\ driver' = IdleDriver
  /\ UNCHANGED <<lastCall, managers>>

NextRun ==
  \/ Request
  \/ UserClick
  \/ ImageLoaded
  \/ DriverPixel
  \/ DriverRowEnd
  \/ DriverFinalYield
  \/ ConsumerChunk
  \/ TimerFires
  \/ ConsumerEnd

SpecRun == Init /\ [][NextRun]_vars

\* The steps of the conversion task itself.  Once a task has started, one of
\* them is enabled until the task ends: the image load settles, the
\* generator's synchronous code runs to its next yield or to its end, the
\* loop body runs to its await, and the zero-delay timer fires.  The host
\* runs an enabled task step eventually; requests and clicks are up to the
\* user.
TaskStep ==
  \/ ImageLoaded
  \/ DriverPixel
  \/ DriverRowEnd
  \/ DriverFinalYield
  \/ ConsumerChunk
  \/ TimerFires
  \/ ConsumerEnd

\* operations a behaviour of SpecRunFair starts
MaxFairOps == 1

\* SpecRunFair: the conversions of SpecRun, MaxFairOps of them, with the
\* task's steps scheduled fairly
RequestFair == Request /\ Len(manager'.heap) <= MaxFairOps

NextRunFair ==
  \/ RequestFair
  \/ UserClick
  \/ ImageLoaded
  \/ DriverPixel
  \/ DriverRowEnd
  \/ DriverFinalYield
  \/ ConsumerChunk
  \/ TimerFires
  \/ ConsumerEnd

SpecRunFair == Init /\ [][NextRunFair]_vars /\ WF_vars(TaskStep)

(***************************************************************************)
(* Properties of the manager and its operations under direct calls (Spec). *)
(***************************************************************************)
StateOf(o) == manager.heap[o].state
\* the abort capability of operation o has been invoked
AbortRequested(o) == manager.heap[o].abortRequested
\* the last fraction operation o's progress callback was invoked with
ProgressOf(o) == manager.heap[o].progress
One == Fraction(1, 1)
InProgressOps == {o \in Created : StateOf(o) = InProgress}
TerminalMethods == {"onAborted", "onFailed", "onComplete"}
GuardedMethods == TerminalMethods \cup {"updateProgress"}
EndStateOf(method) ==
  CASE method = "onAborted" -> Aborted
    [] method = "onFailed" -> Failed
    [] method = "onComplete" -> Completed

\* C1: single flight.  In every reachable state at most one of the
\* operations the manager created is in-progress.
C1_SingleFlight == Cardinality(InProgressOps) <= 1

\* C1 witness: a second operation is in progress after the first has ended.
C1_Witness ==
  /\ Len(manager.heap) = 2
  /\ StateOf(1) \in TerminalState
  /\ StateOf(2) = InProgress

\* C2: a start request is rejected with an AssertionError, creating nothing,
\* exactly when the most recently created operation is in-progress; when
\* that operation is completed, failed or aborted, or none was created, the
\* request returns a new operation, in-progress and current.
C2_StartRejectedIffInProgress ==
  [][lastCall'.method = "startReprojectionOperation" =>
       LET n == Len(manager.heap)
       IN IF n > 0 /\ StateOf(n) = InProgress
          THEN /\ manager'.thrown = "AssertionError"
               /\ manager'.heap = manager.heap
               /\ manager'.operations = manager.operations
          ELSE /\ manager'.thrown = "none"
               /\ Len(manager'.heap) = n + 1
               /\ manager'.heap[n + 1].state = InProgress
               /\ manager'.operations = Append(manager.operations, n + 1)
               /\ \A o \in 1 .. n : manager'.heap[o] = manager.heap[o]]_vars

\* C2 witness: a start was rejected while operation 2, started after
\* operation 1 had failed, is in progress.
C2_Witness ==
  /\ lastCall.method = "startReprojectionOperation"
  /\ manager.thrown = "AssertionError"
  /\ Len(manager.heap) = 2
  /\ StateOf(1) = Failed
  /\ StateOf(2) = InProgress

\* C3: a terminal transition of an in-progress operation sets the state
\* named by the method and invokes onEnd with it; the operation already has
\* that state when onEnd runs; onEnd has run exactly once for an operation
\* that has left in-progress and never for one that has not.
C3_EndNotifiesOnce ==
  /\ [](\A o \in Created :
          IF StateOf(o) = InProgress
          THEN manager.heap[o].onEndLog = <<>>
          ELSE manager.heap[o].onEndLog =
                 <<[result |-> StateOf(o), state |-> StateOf(o)]>>)
  /\ [][\A o \in Created :
          /\ lastCall'.op = o
          /\ lastCall'.method \in TerminalMethods
          /\ StateOf(o) = InProgress
          => /\ manager'.heap[o].state = EndStateOf(lastCall'.method)
             /\ manager'.thrown = "none"]_vars

\* C3 witness: onFailed was called on an in-progress operation and onEnd has
\* run for it.
C3_Witness ==
  /\ lastCall.method = "onFailed"
  /\ manager.thrown = "none"
  /\ StateOf(lastCall.op) = Failed
  /\ Len(manager.heap[lastCall.op].onEndLog) = 1

\* C4: terminal states are absorbing.  An operation that is completed,
\* failed or aborted keeps that state in every step, and a call of
\* onAborted, onFailed, onComplete or updateProgress on it throws an
\* AssertionError and changes neither its state nor the number of onEnd and
\* onUpdate invocations.
C4_TerminalAbsorbing ==
  [][\A o \in Created :
       StateOf(o) \in TerminalState =>
         /\ manager'.heap[o].state = StateOf(o)
         /\ (lastCall'.op = o /\ lastCall'.method \in GuardedMethods =>
               /\ manager'.thrown = "AssertionError"
               /\ manager'.heap[o] = manager.heap[o]
               /\ manager'.subtitle = manager.subtitle
               /\ manager'.imageSrc = manager.imageSrc
               /\ manager'.operations = manager.operations)]_vars

\* C4 witness: onComplete was called on an aborted operation and threw.
C4_Witness ==
  /\ lastCall.method = "onComplete"
  /\ manager.thrown = "AssertionError"
  /\ StateOf(lastCall.op) = Aborted

\* this step changes the cancellation flag of operation o, which only an
\* invocation of its abort capability does
AbortInvoked(o) == manager'.heap[o].abortRequested # manager.heap[o].abortRequested

\* C21 as claimed: invoking the abort capability of an operation that has
\* reached a terminal state raises an error, every time; and a click invokes
\* the capability only of an in-progress operation.
C21_AbortAfterEndFailsLoudly ==
  [][\A o \in Created :
       /\ (/\ lastCall'.method = "abort"
           /\ lastCall'.op = o
           /\ StateOf(o) \in TerminalState
           => manager'.thrown # "none")
       /\ (lastCall'.method = "click" /\ AbortInvoked(o)
           => StateOf(o) = InProgress)]_vars

\* C21: the guard against acting on an ended operation is on onAborted and
\* in the manager, not on the abort capability.  onAborted on an operation
\* that has reached a terminal state throws an AssertionError and changes
\* nothing, every time; invoking the abort capability of such an operation
\* runs the caller's function, raises nothing and changes neither the
\* operation's state, nor the operation list, nor the image source; and a
\* click invokes the capability only of the current operation while it is
\* in-progress.
C21_AbortGuardedByManager ==
  [][\A o \in Created :
       /\ (/\ lastCall'.method = "onAborted"
           /\ lastCall'.op = o
           /\ StateOf(o) \in TerminalState
           => /\ manager'.thrown = "AssertionError"
              /\ manager'.heap[o] = manager.heap[o]
              /\ manager'.operations = manager.operations
              /\ manager'.imageSrc = manager.imageSrc)
       /\ (/\ lastCall'.method = "abort"
           /\ lastCall'.op = o
           /\ StateOf(o) \in TerminalState
           => /\ manager'.thrown = "none"
              /\ manager'.heap[o].state = StateOf(o)
              /\ manager'.heap[o].onEndLog = manager.heap[o].onEndLog
              /\ manager'.operations = manager.operations
              /\ manager'.imageSrc = manager.imageSrc)
       /\ (lastCall'.method = "click" /\ AbortInvoked(o)
           => /\ StateOf(o) = InProgress
              /\ o = Last(manager.operations))
       /\ (lastCall'.method \notin {"click", "abort"} => ~AbortInvoked(o))]_vars

\* C21 witness: the abort capability was invoked on a completed operation
\* and returned.
C21_Witness ==
  /\ lastCall.method = "abort"
  /\ manager.thrown = "none"
  /\ StateOf(lastCall.op) = Completed
  /\ AbortRequested(lastCall.op)

\* C26: the step that constructs an operation leaves it in-progress, with
\* its progress callback invoked exactly once, with 0, and neither its end
\* callback nor its abort capability invoked; no operation exists whose
\* progress callback was never invoked.
C26_ConstructedInProgress ==
  /\ [][Len(manager'.heap) = Len(manager.heap) + 1 =>
          LET new == manager'.heap[Len(manager'.heap)]
          IN /\ new.state = InProgress
             /\ new.onUpdateCalls = 1
             /\ new.progress = Zero
             /\ new.onEndLog = <<>>
             /\ ~new.abortRequested]_vars
  /\ [](\A o \in Created : manager.heap[o].onUpdateCalls >= 1)

\* C26 witness: a second operation has just been constructed, after the
\* first received progress updates and ended.
C26_Witness ==
  /\ lastCall.method = "startReprojectionOperation"
  /\ manager.thrown = "none"
  /\ Len(manager.heap) = 2
  /\ manager.heap[1].onUpdateCalls > 1
  /\ manager.heap[2].onUpdateCalls = 1
  /\ manager.heap[2].progress = Zero
  /\ StateOf(2) = InProgress

\* C27: updateProgress(f) on an in-progress operation invokes its progress
\* callback once more, with f, returns, and leaves the operation
\* in-progress; on an operation that has ended it throws an AssertionError
\* and the callback is not invoked: its invocation count and last argument
\* stay what they were.
C27_UpdatePassesThrough ==
  [][\A o \in Created :
       lastCall'.method = "updateProgress" /\ lastCall'.op = o =>
         IF StateOf(o) = InProgress
         THEN /\ manager'.thrown = "none"
              /\ manager'.heap[o].onUpdateCalls = manager.heap[o].onUpdateCalls + 1
              /\ manager'.heap[o].progress = lastCall'.fraction
              /\ manager'.heap[o].state = InProgress
              /\ manager'.heap[o].onEndLog = <<>>
         ELSE /\ manager'.thrown = "AssertionError"
              /\ manager'.heap[o].onUpdateCalls = manager.heap[o].onUpdateCalls
              /\ manager'.heap[o].progress = manager.heap[o].progress
              /\ manager'.heap[o].state = StateOf(o)]_vars

\* C27 witness: after updateProgress(1/2) and onComplete, updateProgress(1)
\* threw; the callback has been invoked twice, last with 1/2.
C27_Witness ==
  /\ lastCall.method = "updateProgress"
  /\ lastCall.fraction = One
  /\ manager.thrown = "AssertionError"
  /\ StateOf(lastCall.op) = Completed
  /\ manager.heap[lastCall.op].onUpdateCalls = 2
  /\ manager.heap[lastCall.op].progress = Fraction(1, 2)

\* what the indicator displays
Displayed(m) ==
  [className |-> m.className, subtitle |-> m.subtitle, updateInterval |-> m.updateInterval]

\* C31: a start that throws because an operation is in progress leaves the
\* operation list, every operation with its state and the invocations of
\* its callbacks, the image source, the original source and what the
\* indicator displays exactly as they were.
C31_RejectedStartChangesNothing ==
  [][/\ lastCall'.method = "startReprojectionOperation"
     /\ manager'.thrown # "none"
     => /\ manager'.operations = manager.operations
        /\ manager'.heap = manager.heap
        /\ manager'.imageSrc = manager.imageSrc
        /\ manager'.originalImageSrc = manager.originalImageSrc
        /\ manager'.isInitialized = manager.isInitialized
        /\ Displayed(manager') = Displayed(manager)]_vars

\* C31 witness: a start was rejected while the indicator showed the 50% the
\* operation in progress had reported, and it still does.
C31_Witness ==
  /\ lastCall.method = "startReprojectionOperation"
  /\ manager.thrown = "AssertionError"
  /\ manager.subtitle = "50%"
  /\ manager.className = "state-spinner"
  /\ manager.operations # <<>>
  /\ manager.heap[Last(manager.operations)].state = InProgress
  /\ manager.heap[Last(manager.operations)].onUpdateCalls = 2

\* C32: in every reachable state of the manager an operation in progress is
\* the last one of the list and no aborted operation is in the list; so no
\* click on a visible indicator fails an assertion of the click listener,
\* and updateView never throws for an aborted current operation.
C32_ListWellFormed ==
  /\ \A i \in 1 .. Len(manager.operations) :
       /\ StateOf(manager.operations[i]) # Aborted
       /\ StateOf(manager.operations[i]) = InProgress
            => i = Len(manager.operations)
  /\ manager.thrown # "Error"
  /\ lastCall.method = "click" => manager.thrown = "none"

\* C32 witness: a failed operation lies beneath one in progress whose
\* cancellation the last click requested.
C32_Witness ==
  /\ lastCall.method = "click"
  /\ manager.operations = <<1, 2>>
  /\ StateOf(1) = Failed
  /\ StateOf(2) = InProgress
  /\ AbortRequested(2)

\* the indicator is not displayed: it was never built, or it is hidden
Hidden(m) == ~m.isInitialized \/ m.className = "state-hidden"

\* the indicator is displayed with the given class
Shows(m, className) == m.isInitialized /\ m.className = className

\* the state of the last operation of the list is the given one
LastIs(m, state) ==
  m.operations # <<>> /\ m.heap[Last(m.operations)].state = state

\* C33: after every event the indicator shows the state of the last
\* operation of the list: hidden exactly when the list is empty, the spinner
\* exactly when the last operation is in progress, the revert button exactly
\* when it is completed, the error exactly when it failed.  A click that
\* dismisses a failed operation removes that operation alone and leaves the
\* image source as it is.
C33_IndicatorShowsLastOperation ==
  /\ [](/\ Hidden(manager) <=> manager.operations = <<>>
        /\ Shows(manager, "state-spinner") <=> LastIs(manager, InProgress)
        /\ Shows(manager, "state-revert") <=> LastIs(manager, Completed)
        /\ Shows(manager, "state-error") <=> LastIs(manager, Failed))
  /\ [][/\ lastCall'.method = "click"
        /\ LastIs(manager, Failed)
        => /\ manager'.operations = Pop(manager.operations)
           /\ manager'.heap = manager.heap
           /\ manager'.imageSrc = manager.imageSrc]_vars

\* C33 witness: a click dismissed a failed operation and the indicator now
\* shows the revert button of the completed operation beneath it.
C33_Witness ==
  /\ lastCall.method = "click"
  /\ Len(manager.heap) = 2
  /\ manager.operations = <<1>>
  /\ StateOf(1) = Completed
  /\ StateOf(2) = Failed
  /\ Shows(manager, "state-revert")

(***************************************************************************)
(* SpecImages: the managers of two images called directly, in any          *)
(* interleaving.  The content script keeps the managers in a map keyed by  *)
(* the image element; each call acts on the manager of one image.          *)
(***************************************************************************)
\* operations the two managers create in a behaviour, in all
MaxImageOps == 2
\* progress updates delivered to them in a behaviour, in all
MaxImageUpdates == 1

\* a map that keeps one manager for every image
WithManagerShared(ms, i, m) == [j \in DOMAIN ms |-> m]

\* the managers after the manager of image i has become m
WithManager(ms, i, m) == [ms EXCEPT ![i] = m]

OperationsCreated == Len(managers[1].heap) + Len(managers[2].heap)
UpdatesDeliveredToImages ==
  UpdatesDelivered(managers[1].heap) + UpdatesDelivered(managers[2].heap)

\* the operations the manager of image i lists
ListedOn(i) == {managers[i].operations[k] : k \in 1 .. Len(managers[i].operations)}

StartOn ==
  \E i \in ImageIds :
    LET started == StartReprojectionOperation(managers[i])
    IN /\ OperationsCreated + Len(started.heap) - Len(managers[i].heap) <= MaxImageOps
       /\ managers' = WithManager(managers, i, started)
       /\ lastCall' = [method |-> "startReprojectionOperation", op |-> 0, image |-> i]
       /\ UNCHANGED <<manager, task, driver>>

UpdateProgressOn ==
  \E i \in ImageIds : \E o \in ListedOn(i) :
    /\ UpdatesDeliveredToImages < MaxImageUpdates
    /\ managers' = WithManager(managers, i, UpdateProgress(managers[i], o, Fraction(1, 2)))
    /\ lastCall' = [method |-> "updateProgress", op |-> 0, image |-> i]
    /\ UNCHANGED <<manager, task, driver>>

OnAbortedOn ==
  \E i \in ImageIds : \E o \in ListedOn(i) :
    /\ managers' = WithManager(managers, i, OnAborted(managers[i], o))
    /\ lastCall' = [method |-> "onAborted", op |-> 0, image |-> i]
    /\ UNCHANGED <<manager, task, driver>>

OnFailedOn ==
  \E i \in ImageIds : \E o \in ListedOn(i) :
    /\ managers' = WithManager(managers, i, OnFailed(managers[i], o))
    /\ lastCall' = [method |-> "onFailed", op |-> 0, image |-> i]
    /\ UNCHANGED <<manager, task, driver>>

OnCompleteOn ==
  \E i \in ImageIds : \E o \in ListedOn(i) :
    /\ managers' = WithManager(managers, i, OnComplete(managers[i], o))
    /\ lastCall' = [method |-> "onComplete", op |-> 0, image |-> i]
    /\ UNCHANGED <<manager, task, driver>>

ClickOn ==
  \E i \in ImageIds :
    /\ Clickable(managers[i])
    /\ managers' = WithManager(managers, i, OnClick(managers[i]))
    /\ lastCall' = [method |-> "click", op |-> 0, image |-> i]
    /\ UNCHANGED <<manager, task, driver>>

NextImages ==
  \/ StartOn
  \/ UpdateProgressOn
  \/ OnAbortedOn
  \/ OnFailedOn
  \/ OnCompleteOn
  \/ ClickOn

SpecImages == Init /\ [][NextImages]_vars

\* the states of the operations the manager m created, in creation order
StatesOf(m) == [o \in 1 .. Len(m.heap) |-> m.heap[o].state]

\* the current operation of the manager m is in-progress
Busy(m) == m.operations # <<>> /\ m.heap[Last(m.operations)].state = InProgress

MaxConversionOps == 2
\* frames the consumer displays per operation
MaxFrames == 2
\* invocations of one operation's completion callback that are followed
MaxCompletions == 2

\* no current operation: this.currentOperation is undefined
NoOperation == 0

\* new ConversionStateManager(image); children are the elements attached to
\* the container
NewConversionStateManager(src) ==
  [ imageSrc |-> src,
    originalImageSrc |-> src,
    previousImageSrc |-> src,
    isInitialized |-> FALSE,
    currentOperation |-> NoOperation,
    heap |-> <<>>,
    children |-> {},
    display |-> "",
    subtitle |-> "",
    updateInterval |-> FALSE,
    thrown |-> "none" ]

\* ConversionStateManager.maybeInitialize
MaybeInitializeIndicator(m) ==
  IF m.isInitialized THEN m
  ELSE [m EXCEPT !.children = {"spinner", "cancelIcon", "subtitle"},
                 !.isInitialized = TRUE]

ShowIndicator(m) == [m EXCEPT !.display = "", !.updateInterval = TRUE]

HideIndicator(m) == [m EXCEPT !.display = "none", !.updateInterval = FALSE]

\* the completion callback startReprojection passes to the operation; its
\* invocations are counted on the operation it was passed to
CompletionCallback(m, o) ==
  [m EXCEPT !.heap[o].onCompleteCalls = @ + 1,
            !.currentOperation = NoOperation,
            !.children = (@ \ {"spinner", "cancelIcon"}) \cup {"revertIcon"},
            !.subtitle = "Revert"]

\* ConversionStateManager.startReprojection; the operation it returns is
\* heap[Len(heap)] of the result
StartReprojection(m) ==
  IF m.currentOperation # NoOperation THEN Throw(Enter(m), "AssertionError")
  ELSE LET shown == ShowIndicator(MaybeInitializeIndicator(Enter(m)))
           o == Len(m.heap) + 1
       IN [shown EXCEPT
             !.previousImageSrc = shown.imageSrc,
             !.heap = Append(@, [aborted |-> FALSE, completed |-> FALSE,
                                 onCompleteCalls |-> 0]),
             !.subtitle = "0%",
             !.currentOperation = o,
             !.children = (@ \ {"revertIcon"}) \cup {"spinner", "cancelIcon"}]

\* ReprojectionOperation.updateProgress of background.ts
OperationUpdateProgress(m, o, fraction) ==
  [Enter(m) EXCEPT !.subtitle = PercentText(fraction)]

\* ReprojectionOperation.tryComplete
TryComplete(m, o) ==
  IF ~m.heap[o].completed /\ ~m.heap[o].aborted
  THEN [CompletionCallback(Enter(m), o) EXCEPT !.heap[o].completed = FALSE]
  ELSE Enter(m)

\* the cancel icon's click listener
OnCancelClick(m) ==
  IF m.currentOperation = NoOperation THEN Throw(Enter(m), "AssertionError")
  ELSE LET aborted == [Enter(m) EXCEPT !.heap[m.currentOperation].aborted = TRUE,
                                       !.imageSrc = m.previousImageSrc]
       IN IF m.previousImageSrc = m.originalImageSrc
          THEN HideIndicator(aborted)
          ELSE aborted

\* the revert icon's click listener
OnRevertClick(m) ==
  IF m.currentOperation # NoOperation THEN Throw(Enter(m), "AssertionError")
  ELSE HideIndicator([Enter(m) EXCEPT !.imageSrc = m.originalImageSrc])

\* an icon can be clicked when it is attached to a displayed container
IconClickable(m, icon) ==
  m.isInitialized /\ m.display # "none" /\ icon \in m.children

InitConversion ==
  /\ manager = NewConversionStateManager(PageImageSrc)
  /\ lastCall = NoCall
  /\ task = IdleTask
  /\ driver = IdleDriver
  /\ managers = [i \in ImageIds |-> NewManager(PageImageSrcOf(i))]

CallStartReprojection ==
  /\ Len(manager.heap) < MaxConversionOps \/ manager.currentOperation # NoOperation
  /\ manager' = StartReprojection(manager)
  /\ lastCall' = [method |-> "startReprojection", op |-> 0]
  /\ UNCHANGED <<task, driver, managers>>

\* the consumer's loop body for the n-th frame of operation o: it reports
\* the progress and displays the frame
ConsumerFrame ==
  \E o \in Created, n \in 1 .. MaxFrames :
    /\ manager' = [OperationUpdateProgress(manager, o, Fraction(n, MaxFrames))
                     EXCEPT !.imageSrc =
                       FrameSrc(o, [pixelsCalculated |-> n, totalPixels |-> MaxFrames])]
    /\ lastCall' = [method |-> "updateProgress", op |-> o]
    /\ UNCHANGED <<task, driver, managers>>

CallTryComplete ==
  \E o \in Created :
    /\ manager' = TryComplete(manager, o)
    /\ manager'.heap[o].onCompleteCalls <= MaxCompletions
    /\ lastCall' = [method |-> "tryComplete", op |-> o]
    /\ UNCHANGED <<task, driver, managers>>

ClickCancelIcon ==
  /\ IconClickable(manager, "cancelIcon")
  /\ manager' = OnCancelClick(manager)
  /\ lastCall' = [method |-> "cancel", op |-> manager.currentOperation]
  /\ UNCHANGED <<task, driver, managers>>

ClickRevertIcon ==
  /\ IconClickable(manager, "revertIcon")
  /\ manager' = OnRevertClick(manager)
  /\ lastCall' = [method |-> "revert", op |-> 0]
  /\ UNCHANGED <<task, driver, managers>>

NextConversion ==
  \/ CallStartReprojection
  \/ ConsumerFrame
  \/ CallTryComplete
  \/ ClickCancelIcon
  \/ ClickRevertIcon

SpecConversion == InitConversion /\ [][NextConversion]_vars

\* C37: once the user has cancelled the latest operation through the cancel
\* icon, a later startReprojection on the same image is accepted and
\* returns a new operation, which becomes the current one.
C37_StartAcceptedAfterCancel ==
  [][/\ lastCall'.method = "startReprojection"
     /\ manager.heap # <<>>
     /\ Last(manager.heap).aborted
     => /\ manager'.thrown = "none"
        /\ Len(manager'.heap) = Len(manager.heap) + 1
        /\ manager'.currentOperation = Len(manager'.heap)]_vars

\* C38: the completion callback of an operation is invoked at most once,
\* however often tryComplete is called, and not at all once the
\* operation's abort signal has been raised.
C38_CompletesAtMostOnce ==
  /\ [](\A o \in Created : manager.heap[o].onCompleteCalls <= 1)
  /\ [][\A o \in Created :
          manager.heap[o].aborted =>
            manager'.heap[o].onCompleteCalls = manager.heap[o].onCompleteCalls]_vars

(***************************************************************************)
(* SpecPure: the pure functions of reproject.ts and                        *)
(* bilinear-interpolation.ts called directly on drawn inputs.  lastCall    *)
(* holds the call's arguments and its result; the manager, the consumer    *)
(* and the generator stay as constructed.  The functions keep no state, so *)
(* a behaviour makes one call.                                             *)
(***************************************************************************)
\* unit-scale coordinates of a projected sampling point: -MaxCoord .. MaxCoord
MaxCoord == 1
\* sampling points a projection configuration lists
MaxPoints == 2

UnitPoints ==
  {NullPoint, NonFinitePoint}
    \cup {FinitePoint(x, y) : x \in -MaxCoord .. MaxCoord, y \in -MaxCoord .. MaxCoord}

BoundsInputs == UNION {[1 .. n -> UnitPoints] : n \in 0 .. MaxPoints}

\* the sampling points bounds discovery keeps: projected to a non-null point
\* with finite coordinates
Survivors(points) ==
  {i \in 1 .. Len(points) : ~points[i].null /\ points[i].finite}

CallComputeUnitScaleDimensions ==
  /\ lastCall = NoCall
  /\ \E points \in BoundsInputs :
       lastCall' = [method |-> "computeUnitScaleDimensions", op |-> 0,
                    points |-> points,
                    result |-> ComputeUnitScaleDimensions(points)]
  /\ UNCHANGED <<manager, task, driver, managers>>

\* a configuration that rounds the destination height down
ConfigureProjectionRoundsDown(sourceWidth, points) ==
  LET unit == ComputeUnitScaleDimensions(points)
      destWidth == sourceWidth
      destHeight == (destWidth * unit.height) \div unit.width
  IN [ destWidth |-> destWidth,
       destHeight |-> destHeight,
       scale |-> Fraction(destWidth, unit.width),
       translate |-> <<Fraction(destWidth, 2), Fraction(destHeight, 2)>> ]

\* reproject's configuration of the target projection from the discovered
\* bounds: scale = destWidth / destUnitWidth, translate = (destWidth / 2,
\* destHeight / 2)
ConfigureProjection(sourceWidth, points) ==
  LET unit == ComputeUnitScaleDimensions(points)
      destWidth == sourceWidth
      destHeight == CeilDiv(destWidth * unit.height, unit.width)
  IN [ destWidth |-> destWidth,
       destHeight |-> destHeight,
       scale |-> Fraction(destWidth, unit.width),
       translate |-> <<Fraction(destWidth, 2), Fraction(destHeight, 2)>> ]

\* A d3 projection maps a location to scale * u + translate, u being the
\* point it maps the location to at scale 1 and translate (0, 0).  Pixel
\* coordinates are kept exact, as numerators over ForwardDenominator.
ForwardDenominator(c) == 2 * c.scale[2]

Forward(c, u) ==
  [ x |-> 2 * c.scale[1] * u.x + c.translate[1][1] * c.scale[2],
    y |-> 2 * c.scale[1] * u.y + c.translate[2][1] * c.scale[2] ]

CallConfigureProjection ==
  /\ lastCall = NoCall
  /\ \E sourceWidth \in SourceWidths, points \in BoundsInputs :
       /\ ComputeUnitScaleDimensions(points).error = "none"
       /\ LET c == ConfigureProjection(sourceWidth, points)
          IN lastCall' = [method |-> "configureProjection", op |-> 0,
                          sourceWidth |-> sourceWidth,
                          points |-> points,
                          result |-> c,
                          projected |-> [i \in Survivors(points) |-> Forward(c, points[i])]]
  /\ UNCHANGED <<manager, task, driver, managers>>

\* Pixel coordinates are multiples of 1 / CoordDen and are written as their
\* numerators: the coordinate n stands for n / CoordDen.
CoordDen == 2
\* pixels of a drawn buffer
MaxPixels == 4

\* Rgba values the drawn buffers are made of: opaque black, opaque white,
\* transparent white
Palette == {<<0, 0, 0, 255>>, <<255, 255, 255, 255>>, <<255, 255, 255, 0>>}

\* ImageData: four channel values per pixel, row by row
ImageOf(width, height, pixels) ==
  [ width |-> width, height |-> height,
    data |-> [i \in 1 .. 4 * width * height |->
                pixels[((i - 1) \div 4) + 1][((i - 1) % 4) + 1]] ]

\* <<width, height>> of the drawn buffers
ImageSizes ==
  {size \in (1 .. MaxPixels) \X (1 .. MaxPixels) : size[1] * size[2] <= MaxPixels}

Images ==
  UNION { {ImageOf(size[1], size[2], pixels) :
             pixels \in [1 .. size[1] * size[2] -> Palette]} : size \in ImageSizes }

MathMin(a, b) == IF a <= b THEN a ELSE b
MathMax(a, b) == IF a >= b THEN a ELSE b

\* a clamp that wraps around the range
ClampWraps(value, min, max) == min + ((value - min) % (max - min + 1))

\* a clamp that returns a limit for every value
ClampToNearerLimit(value, min, max) == IF value >= max THEN max ELSE min

Clamp(value, min, max) == MathMax(min, MathMin(max, value))

\* Math.floor of the coordinate n / CoordDen
Floor(n) == n \div CoordDen

\* data[idx + channel], data being indexed from 0 in the code and from 1 here
ChannelAtNextChannel(data, idx, channel) == data[idx + ((channel + 1) % 4) + 1]

ChannelAt(data, idx, channel) == data[idx + channel + 1]

\* One channel of the result: top = c00 * (1 - tx) + c10 * tx, bottom =
\* c01 * (1 - tx) + c11 * tx, Math.round(top * (1 - ty) + bottom * ty); tx
\* and ty are numerators over CoordDen and Math.round rounds half up.
InterpolateChannelSwapsWeights(c00, c10, c01, c11, tx, ty) ==
  LET top == c00 * tx + c10 * (CoordDen - tx)
      bottom == c01 * tx + c11 * (CoordDen - tx)
      v == top * (CoordDen - ty) + bottom * ty
  IN (2 * v + CoordDen * CoordDen) \div (2 * CoordDen * CoordDen)

InterpolateChannelTruncates(c00, c10, c01, c11, tx, ty) ==
  LET top == c00 * (CoordDen - tx) + c10 * tx
      bottom == c01 * (CoordDen - tx) + c11 * tx
      v == top * (CoordDen - ty) + bottom * ty
  IN v \div (CoordDen * CoordDen)

\* a blend whose weights do not sum to one
InterpolateChannelExtrapolates(c00, c10, c01, c11, tx, ty) ==
  LET top == c00 * CoordDen + c10 * tx
      bottom == c01 * CoordDen + c11 * tx
      v == top * (CoordDen - ty) + bottom * ty
  IN (2 * v + CoordDen * CoordDen) \div (2 * CoordDen * CoordDen)

InterpolateChannel(c00, c10, c01, c11, tx, ty) ==
  LET top == c00 * (CoordDen - tx) + c10 * tx
      bottom == c01 * (CoordDen - tx) + c11 * tx
      v == top * (CoordDen - ty) + bottom * ty
  IN (2 * v + CoordDen * CoordDen) \div (2 * CoordDen * CoordDen)

\* the offsets idx00, idx10, idx01, idx11 of the four corner pixels in data
CornerIndices(image, coordinates) ==
  LET x == coordinates[1]
      y == coordinates[2]
      width == image.width
      height == image.height
      x0 == Floor(x)
      x1 == x0 + 1
      y0 == Floor(y)
      y1 == y0 + 1
      clampX0 == Clamp(x0, 0, width - 1)
      clampY0 == Clamp(y0, 0, height - 1)
      clampX1 == Clamp(x1, 0, width - 1)
      clampY1 == Clamp(y1, 0, height - 1)
  IN << (clampY0 * width + clampX0) * 4,
        (clampY0 * width + clampX1) * 4,
        (clampY1 * width + clampX0) * 4,
        (clampY1 * width + clampX1) * 4 >>

\* the indices of data the channel loop reads, counted from 0 as in the code
IndicesRead(image, coordinates) ==
  LET idx == CornerIndices(image, coordinates)
  IN {idx[c] + channel : c \in 1 .. 4, channel \in 0 .. 3}

\* bilinearInterpolate({ data, width, height }, [x, y])
BilinearInterpolate(image, coordinates) ==
  LET x == coordinates[1]
      y == coordinates[2]
      x0 == Floor(x)
      y0 == Floor(y)
      tx == x - x0 * CoordDen
      ty == y - y0 * CoordDen
      idx == CornerIndices(image, coordinates)
  IN [k \in 1 .. 4 |->
        InterpolateChannel(ChannelAt(image.data, idx[1], k - 1),
                           ChannelAt(image.data, idx[2], k - 1),
                           ChannelAt(image.data, idx[3], k - 1),
                           ChannelAt(image.data, idx[4], k - 1),
                           tx, ty)]

\* the coordinates drawn along an axis of n pixels: from -1 to n, a pixel
\* before the first and a pixel past the last
SampleCoordinates(n) == (-CoordDen) .. (n * CoordDen)

CallBilinearInterpolate ==
  /\ lastCall = NoCall
  /\ \E image \in Images :
       \E x \in SampleCoordinates(image.width), y \in SampleCoordinates(image.height) :
         lastCall' = [method |-> "bilinearInterpolate", op |-> 0,
                      image |-> image,
                      coordinates |-> <<x, y>>,
                      corners |-> CornerIndices(image, <<x, y>>),
                      reads |-> IndicesRead(image, <<x, y>>),
                      result |-> BilinearInterpolate(image, <<x, y>>)]
  /\ UNCHANGED <<manager, task, driver, managers>>

\* The body of reproject's pixel loop for one destination pixel, after the
\* abort check.  The projections are black boxes: their results are drawn.
\*   lonLat          destProjection.invert(destinationCoordinates), null or not
\*   reprojected     destProjection(lonLat): null, or the destination
\*                   coordinates plus (dx, dy), in units of 1e-4 pixel
\*   source          sourceProjection(lonLat): null, or coordinates (x, y)
\* A call the code does not reach is drawn as null.
\* the tolerance 1e-3 of the round-trip check, in units of 1e-4 pixel
RoundTripTolerance == 10

Abs(a) == IF a < 0 THEN -a ELSE a

\* a round-trip check that also rejects a deviation equal to the tolerance
ClassifyPixelStrictTolerance(lonLat, reprojected, source) ==
  IF lonLat.null THEN "inverse-null"
  ELSE IF \/ reprojected.null
          \/ Abs(reprojected.dx) >= RoundTripTolerance
          \/ Abs(reprojected.dy) >= RoundTripTolerance
    THEN "round-trip-mismatch"
  ELSE IF source.null THEN "source-null"
  ELSE "sampled"

\* which `continue` the pixel takes, or that it is sampled
ClassifyPixel(lonLat, reprojected, source) ==
  IF lonLat.null THEN "inverse-null"
  ELSE IF \/ reprojected.null
          \/ Abs(reprojected.dx) > RoundTripTolerance
          \/ Abs(reprojected.dy) > RoundTripTolerance
    THEN "round-trip-mismatch"
  ELSE IF source.null THEN "source-null"
  ELSE "sampled"

\* a wrap that brings every X into [0, sourceWidth)
WrapXModulo(x, sourceWidth) == x % (sourceWidth * CoordDen)

\* the wrap of the source X for a longitude offset
WrapX(x, sourceWidth) ==
  IF x < 0 THEN x + sourceWidth * CoordDen
  ELSE IF x >= sourceWidth * CoordDen THEN x - sourceWidth * CoordDen
  ELSE x

\* destImageData.data after the four channel writes at destIdx
WritePixel(data, destWidth, x, y, rgba) ==
  LET destIdx == (y * destWidth + x) * 4
  IN [i \in DOMAIN data |->
        IF i - 1 \in destIdx .. destIdx + 3 THEN rgba[i - destIdx] ELSE data[i]]

\* a pixel body that also skips a source coordinate outside the source image
PixelBodySkipsOutOfBounds(data, destWidth, x, y, sourceImageData, lonLat, reprojected, source) ==
  LET outcome == ClassifyPixel(lonLat, reprojected, source)
      sourceCoordinates == <<WrapX(source.x, sourceImageData.width), source.y>>
      inside == /\ 0 <= sourceCoordinates[1]
                /\ sourceCoordinates[1] < sourceImageData.width * CoordDen
                /\ 0 <= sourceCoordinates[2]
                /\ sourceCoordinates[2] < sourceImageData.height * CoordDen
  IN IF outcome # "sampled" \/ ~inside
     THEN [outcome |-> outcome, data |-> data, sourceCoordinates |-> <<>>]
     ELSE [outcome |-> outcome,
           data |-> WritePixel(data, destWidth, x, y,
                               BilinearInterpolate(sourceImageData, sourceCoordinates)),
           sourceCoordinates |-> sourceCoordinates]

PixelBody(data, destWidth, x, y, sourceImageData, lonLat, reprojected, source) ==
  LET outcome == ClassifyPixel(lonLat, reprojected, source)
      sourceCoordinates == <<WrapX(source.x, sourceImageData.width), source.y>>
  IN IF outcome # "sampled"
     THEN [outcome |-> outcome, data |-> data, sourceCoordinates |-> <<>>]
     ELSE [outcome |-> outcome,
           data |-> WritePixel(data, destWidth, x, y,
                               BilinearInterpolate(sourceImageData, sourceCoordinates)),
           sourceCoordinates |-> sourceCoordinates]

\* the results drawn for the projections
LonLats == {[null |-> TRUE], [null |-> FALSE]}

Deviations ==
  { <<0, 0>>, <<RoundTripTolerance, -RoundTripTolerance>>,
    <<RoundTripTolerance + 1, 0>>, <<0, RoundTripTolerance + 1>>,
    <<-(RoundTripTolerance + 1), 0>>, <<0, -(RoundTripTolerance + 1)>> }

NoReprojection == [null |-> TRUE, dx |-> 0, dy |-> 0]
Reprojections ==
  {NoReprojection} \cup {[null |-> FALSE, dx |-> d[1], dy |-> d[2]] : d \in Deviations}

\* source coordinates from one image width left of the image to one image
\* width right of it and a pixel more, and from a pixel above it to a pixel
\* below it
NoSource == [null |-> TRUE, x |-> 0, y |-> 0]
Sources(image) ==
  {NoSource} \cup
  { [null |-> FALSE, x |-> x, y |-> y] :
      x \in (-(image.width + 1) * CoordDen) .. ((2 * image.width + 1) * CoordDen),
      y \in SampleCoordinates(image.height) }

\* the source image's pixels: one row, of a width a run draws
SourceImages == {image \in Images : image.width \in SourceWidths /\ image.height = 1}

\* the destination buffer is one row of MaxDim pixels, created blank; the
\* pixels before column x may have been written
DestinationDatas(x) ==
  LET blank == [i \in 1 .. 4 * MaxDim |-> 0]
  IN {blank} \cup {WritePixel(blank, MaxDim, x - 1, 0, rgba) : rgba \in IF x > 0 THEN Palette ELSE {}}

\* the generator about to process column x of that row
PixelDriver(x) ==
  [IdleDriver EXCEPT !.pc = "pixel",
                     !.destWidth = MaxDim, !.destHeight = 1,
                     !.x = x, !.pixelsCalculated = x,
                     !.decided = [i \in 1 .. x |-> i],
                     !.totalPixels = MaxDim,
                     !.data = [i \in 1 .. MaxDim |-> 0]]

CallPixelBody ==
  /\ lastCall = NoCall
  /\ \E x \in 0 .. MaxDim - 1, sourceImageData \in SourceImages,
        lonLat \in LonLats, reprojected \in Reprojections :
       \E data \in DestinationDatas(x), source \in Sources(sourceImageData) :
         /\ lonLat.null => reprojected.null
         /\ (\/ reprojected.null
             \/ Abs(reprojected.dx) > RoundTripTolerance
             \/ Abs(reprojected.dy) > RoundTripTolerance) => source.null
         /\ LET result == PixelBody(data, MaxDim, x, 0, sourceImageData,
                                    lonLat, reprojected, source)
            IN lastCall' = [method |-> "pixelBody", op |-> 0,
                            x |-> x,
                            data |-> data,
                            sourceImageData |-> sourceImageData,
                            lonLat |-> lonLat,
                            reprojected |-> reprojected,
                            source |-> source,
                            result |-> result,
                            after |-> Pixel(PixelDriver(x), FALSE, result.outcome)]
  /\ UNCHANGED <<manager, task, driver, managers>>

\* the finite numbers clamp is called with: -MaxClamp .. MaxClamp
MaxClamp == 2
\* Infinity and -Infinity: Math.min and Math.max only compare, so the
\* infinities are the numbers above and below every finite one drawn
Infinity == MaxClamp + 1
ClampNumbers == (-Infinity) .. Infinity

\* clamp(value, min, max), and clamp applied to its own result
CallClamp ==
  /\ lastCall = NoCall
  /\ \E value \in ClampNumbers, min \in ClampNumbers, max \in ClampNumbers :
       /\ min <= max
       /\ lastCall' = [method |-> "clamp", op |-> 0,
                       value |-> value, min |-> min, max |-> max,
                       result |-> Clamp(value, min, max),
                       again |-> Clamp(Clamp(value, min, max), min, max)]
  /\ UNCHANGED <<manager, task, driver, managers>>

NextPure ==
  \/ CallComputeUnitScaleDimensions
  \/ CallConfigureProjection
  \/ CallBilinearInterpolate
  \/ CallClamp
  \/ CallPixelBody

SpecPure == Init /\ [][NextPure]_vars

\* C12: bounds discovery fails exactly when no sampling point survives (with
\* the invalid-bounds error) or the survivors do not span a positive width
\* and a positive height (with the strictly-positive error); otherwise the
\* width and height it returns are positive and are the differences of the
\* largest and smallest X and Y among the survivors.
C12_BoundsDiscovery ==
  lastCall.method = "computeUnitScaleDimensions" =>
    LET points == lastCall.points
        S == Survivors(points)
        r == lastCall.result
        wide == \E i \in S, j \in S : points[i].x < points[j].x
        tall == \E i \in S, j \in S : points[i].y < points[j].y
    IN /\ S = {} <=> r.error = "could not determine valid projection bounds"
       /\ (S # {} /\ ~(wide /\ tall))
            <=> r.error = "computed unit dimensions must be strictly positive"
       /\ (wide /\ tall) <=> r.error = "none"
       /\ r.error = "none" =>
            /\ r.width > 0 /\ r.height > 0
            /\ \E i \in S, j \in S :
                 /\ r.width = points[j].x - points[i].x
                 /\ \A k \in S : points[i].x <= points[k].x /\ points[k].x <= points[j].x
            /\ \E i \in S, j \in S :
                 /\ r.height = points[j].y - points[i].y
                 /\ \A k \in S : points[i].y <= points[k].y /\ points[k].y <= points[j].y

\* C12 witness: a single point survives beside a discarded non-finite one,
\* and discovery failed for the box it spans.
C12_Witness ==
  /\ lastCall.method = "computeUnitScaleDimensions"
  /\ Cardinality(Survivors(lastCall.points)) = 1
  /\ \E i \in 1 .. Len(lastCall.points) :
       ~lastCall.points[i].null /\ ~lastCall.points[i].finite
  /\ lastCall.result.error = "computed unit dimensions must be strictly positive"

\* C13: forward-projecting the sampling points through the projection as
\* reproject configured it gives a bounding box whose centre is the centre
\* of the destination canvas (destWidth / 2, destHeight / 2), whose width is
\* destWidth and whose height is within one pixel of destHeight.
C13_ConfiguredBoxMatchesCanvas ==
  lastCall.method = "configureProjection" =>
    LET c == lastCall.result
        D == ForwardDenominator(c)
        P == lastCall.projected
        xs == {P[i].x : i \in DOMAIN P}
        ys == {P[i].y : i \in DOMAIN P}
        boxWidth == SetMax(xs) - SetMin(xs)
        boxHeight == SetMax(ys) - SetMin(ys)
    IN /\ SetMin(xs) + SetMax(xs) = c.destWidth * D
       /\ SetMin(ys) + SetMax(ys) = c.destHeight * D
       /\ boxWidth = c.destWidth * D
       /\ boxHeight - c.destHeight * D <= D
       /\ c.destHeight * D - boxHeight <= D

\* the four channel values the buffer stores for pixel (px, py)
StoredPixel(image, px, py) ==
  [k \in 1 .. 4 |-> image.data[(py * image.width + px) * 4 + k]]

\* the coordinate n is a whole number of pixels
IsInteger(n) == n % CoordDen = 0

\* the coordinate n lies on a pixel of an axis of `size` pixels
InBounds(n, size) == 0 <= n /\ n <= (size - 1) * CoordDen

\* C14: at integer coordinates (x, y) with 0 <= x < width and 0 <= y <
\* height, bilinearInterpolate returns exactly the four stored channel
\* values of pixel (x, y), the last column and the last row included.
C14_ExactAtIntegerCoordinates ==
  lastCall.method = "bilinearInterpolate" =>
    LET image == lastCall.image
        x == lastCall.coordinates[1]
        y == lastCall.coordinates[2]
    IN (/\ IsInteger(x) /\ InBounds(x, image.width)
        /\ IsInteger(y) /\ InBounds(y, image.height))
       => lastCall.result = StoredPixel(image, x \div CoordDen, y \div CoordDen)

\* C14 witness: the bottom-right pixel of a 2x2 buffer was sampled, and it
\* differs from the pixel left of it and the pixel above it.
C14_Witness ==
  /\ lastCall.method = "bilinearInterpolate"
  /\ lastCall.image.width = 2 /\ lastCall.image.height = 2
  /\ lastCall.coordinates = <<CoordDen, CoordDen>>
  /\ lastCall.result = StoredPixel(lastCall.image, 1, 1)
  /\ StoredPixel(lastCall.image, 1, 1) # StoredPixel(lastCall.image, 0, 1)
  /\ StoredPixel(lastCall.image, 1, 1) # StoredPixel(lastCall.image, 1, 0)

\* the nearest coordinate on a pixel of an axis of `size` pixels, for a
\* coordinate off the axis (n < 0 or n >= size); n itself otherwise
NearestInBounds(n, size) ==
  IF n < 0 THEN 0
  ELSE IF n >= size * CoordDen THEN (size - 1) * CoordDen
  ELSE n

\* C15: edge replication.  With x < 0 or x >= width (or y < 0 or y >=
\* height) bilinearInterpolate returns what it returns with every such
\* coordinate replaced by the nearest in-bounds integer (0, or width - 1,
\* height - 1) and the other left as it is; when both coordinates are then
\* integers in bounds, that is the stored pixel there, never the pixel of
\* the opposite edge.
C15_EdgeReplication ==
  lastCall.method = "bilinearInterpolate" =>
    LET image == lastCall.image
        x == lastCall.coordinates[1]
        y == lastCall.coordinates[2]
        cx == NearestInBounds(x, image.width)
        cy == NearestInBounds(y, image.height)
    IN (cx # x \/ cy # y) =>
         /\ lastCall.result = BilinearInterpolate(image, <<cx, cy>>)
         /\ (IsInteger(cx) /\ IsInteger(cy)) =>
              lastCall.result = StoredPixel(image, cx \div CoordDen, cy \div CoordDen)

\* C15 witness: a buffer two pixels wide with different pixels in its two
\* columns was sampled left of column 0, at a fractional x, and the result
\* is the pixel of column 0.
C15_Witness ==
  /\ lastCall.method = "bilinearInterpolate"
  /\ lastCall.image.width = 2 /\ lastCall.image.height = 1
  /\ lastCall.coordinates[1] < 0 /\ ~IsInteger(lastCall.coordinates[1])
  /\ lastCall.coordinates[2] = 0
  /\ StoredPixel(lastCall.image, 0, 0) # StoredPixel(lastCall.image, 1, 0)
  /\ lastCall.result = StoredPixel(lastCall.image, 0, 0)

\* the pixel index on an axis of `size` pixels nearest to index i
NearestIndex(i, size) == IF i < 0 THEN 0 ELSE IF i > size - 1 THEN size - 1 ELSE i

\* CoordDen * CoordDen times the blend v of channel k at the coordinates:
\* v = (c00 * (1 - tx) + c10 * tx) * (1 - ty) + (c01 * (1 - tx) + c11 * tx) * ty
\* over the four corner pixels, each nearest to its unclamped position
ScaledBlend(image, coordinates, k) ==
  LET x0 == coordinates[1] \div CoordDen
      y0 == coordinates[2] \div CoordDen
      tx == coordinates[1] % CoordDen
      ty == coordinates[2] % CoordDen
      c(i, j) == StoredPixel(image, NearestIndex(i, image.width),
                             NearestIndex(j, image.height))[k]
  IN   c(x0, y0) * (CoordDen - tx) * (CoordDen - ty)
     + c(x0 + 1, y0) * tx * (CoordDen - ty)
     + c(x0, y0 + 1) * (CoordDen - tx) * ty
     + c(x0 + 1, y0 + 1) * tx * ty

\* C16: every channel of the result is floor(v + 1/2), that is the integer
\* r with r <= v + 1/2 < r + 1, for the blend v of the four clamped corner
\* pixels; at (0.5, 0.5) of a 2x2 buffer that is the channel-wise mean of
\* the four pixels rounded half up, and a 2x1 buffer [black, white] sampled
\* at x = 0.5 gives [128, 128, 128, 255].
C16_RoundedBlend ==
  lastCall.method = "bilinearInterpolate" =>
    LET image == lastCall.image
        x == lastCall.coordinates[1]
        y == lastCall.coordinates[2]
        r == lastCall.result
        unit == CoordDen * CoordDen
    IN /\ \A k \in 1 .. 4 :
            LET v == ScaledBlend(image, lastCall.coordinates, k)
            IN /\ 2 * unit * r[k] <= 2 * v + unit
               /\ 2 * v + unit < 2 * unit * (r[k] + 1)
       /\ (image.width = 2 /\ image.height = 2 /\ 2 * x = CoordDen /\ 2 * y = CoordDen) =>
            \A k \in 1 .. 4 :
              LET sum == StoredPixel(image, 0, 0)[k] + StoredPixel(image, 1, 0)[k]
                         + StoredPixel(image, 0, 1)[k] + StoredPixel(image, 1, 1)[k]
              IN r[k] = (sum + 2) \div 4
       /\ (/\ image.width = 2 /\ image.height = 1 /\ 2 * x = CoordDen /\ y = 0
           /\ StoredPixel(image, 0, 0) = <<0, 0, 0, 255>>
           /\ StoredPixel(image, 1, 0) = <<255, 255, 255, 255>>) =>
            r = <<128, 128, 128, 255>>

\* C16 witness: the 2x1 buffer [black, white] sampled at x = 0.5, where the
\* blend 127.5 is rounded up.
C16_Witness ==
  /\ lastCall.method = "bilinearInterpolate"
  /\ lastCall.image = ImageOf(2, 1, <<(<<0, 0, 0, 255>>), (<<255, 255, 255, 255>>)>>)
  /\ 2 * lastCall.coordinates[1] = CoordDen
  /\ lastCall.coordinates[2] = 0
  /\ lastCall.result = <<128, 128, 128, 255>>

\* the buffer with every channel but channel k set to 0
KeepChannel(image, k) ==
  [image EXCEPT !.data = [i \in DOMAIN image.data |->
                            IF (i - 1) % 4 = k - 1 THEN image.data[i] ELSE 0]]

\* the buffer with the alpha of every pixel set to a
WithAlpha(image, a) ==
  [image EXCEPT !.data = [i \in DOMAIN image.data |->
                            IF (i - 1) % 4 = 3 THEN a ELSE image.data[i]]]

\* C17: channel independence.  Channel k of the result is channel k of the
\* result for the buffer whose other channels are all set to 0, so it
\* depends on channel k of the buffer only; in particular replacing the
\* alpha values of the buffer leaves R, G and B of the result unchanged.
C17_ChannelIndependence ==
  lastCall.method = "bilinearInterpolate" =>
    /\ \A k \in 1 .. 4 :
         lastCall.result[k] =
           BilinearInterpolate(KeepChannel(lastCall.image, k), lastCall.coordinates)[k]
    /\ \A a \in {0, 255} :
         LET replaced == BilinearInterpolate(WithAlpha(lastCall.image, a),
                                             lastCall.coordinates)
         IN \A k \in 1 .. 3 : lastCall.result[k] = replaced[k]

\* C17 witness: a transparent and an opaque white pixel were blended: the
\* alpha of the result lies between theirs and R, G and B are white.
C17_Witness ==
  /\ lastCall.method = "bilinearInterpolate"
  /\ lastCall.image.width = 2 /\ lastCall.image.height = 1
  /\ StoredPixel(lastCall.image, 0, 0) = <<255, 255, 255, 0>>
  /\ StoredPixel(lastCall.image, 1, 0) = <<255, 255, 255, 255>>
  /\ lastCall.result[4] \notin {0, 255}
  /\ \A k \in 1 .. 3 : lastCall.result[k] = 255

\* the four channels of the destination pixel in column x of the row
DestinationPixel(data, x) == [k \in 1 .. 4 |-> data[4 * x + k]]

\* the projections gave no usable result for the pixel of this call
ProjectionsBlank ==
  \/ lastCall.lonLat.null
  \/ lastCall.reprojected.null
  \/ Abs(lastCall.reprojected.dx) > RoundTripTolerance
  \/ Abs(lastCall.reprojected.dy) > RoundTripTolerance
  \/ lastCall.source.null

\* C18: the destination pixel keeps its initial value 0 in all four
\* channels whenever the inverse projection is null, or the round trip is
\* null or off by more than the tolerance on either axis, or the Mercator
\* projection is null; otherwise its four channels are overwritten with the
\* sample of the source buffer.  No other channel of the buffer changes, no
\* error is raised, and the loop goes on to the next pixel.
C18_PixelBlankOrSampled ==
  lastCall.method = "pixelBody" =>
    LET x == lastCall.x
        result == lastCall.result
    IN /\ DOMAIN result.data = DOMAIN lastCall.data
       /\ \A i \in DOMAIN lastCall.data :
            i \notin (4 * x + 1) .. (4 * x + 4) => result.data[i] = lastCall.data[i]
       /\ ProjectionsBlank =>
            /\ result.outcome \in BlankOutcomes
            /\ DestinationPixel(result.data, x) = <<0, 0, 0, 0>>
       /\ ~ProjectionsBlank =>
            /\ result.outcome = "sampled"
            /\ DestinationPixel(result.data, x) =
                 BilinearInterpolate(lastCall.sourceImageData, result.sourceCoordinates)
            /\ result.sourceCoordinates[2] = lastCall.source.y
            /\ (result.sourceCoordinates[1] - lastCall.source.x)
                 % (lastCall.sourceImageData.width * CoordDen) = 0
       /\ lastCall.after.error = "none"
       /\ lastCall.after.pixelsCalculated = x + 1
       /\ \/ lastCall.after.pc = "pixel" /\ lastCall.after.x = x + 1
          \/ lastCall.after.pc = "row-end" /\ x = MaxDim - 1

\* C18 witness: the round trip came back off by more than the tolerance on
\* the Y axis only; the pixel stayed blank next to a pixel written before.
C18_Witness ==
  /\ lastCall.method = "pixelBody"
  /\ ~lastCall.lonLat.null /\ ~lastCall.reprojected.null
  /\ lastCall.reprojected.dx = 0
  /\ lastCall.reprojected.dy = RoundTripTolerance + 1
  /\ lastCall.x > 0
  /\ DestinationPixel(lastCall.data, lastCall.x - 1) # <<0, 0, 0, 0>>
  /\ lastCall.result.data = lastCall.data
  /\ lastCall.after.pc \in {"pixel", "row-end"}

\* the source coordinates of this call, X wrapped once, lie outside the
\* source image
SourceOutOfBounds ==
  LET image == lastCall.sourceImageData
      sx == WrapX(lastCall.source.x, image.width)
      sy == lastCall.source.y
  IN /\ ~ProjectionsBlank
     /\ \/ sx < 0 \/ sx >= image.width * CoordDen
        \/ sy < 0 \/ sy >= image.height * CoordDen

C20_WrapOnce ==
  (lastCall.method = "pixelBody" /\ ~ProjectionsBlank) =>
    LET image == lastCall.sourceImageData
        sourceWidth == image.width * CoordDen
        sx == lastCall.source.x
        at == lastCall.result.sourceCoordinates
    IN /\ lastCall.result.outcome = "sampled"
       /\ sx < 0 => at[1] = sx + sourceWidth
       /\ sx >= sourceWidth => at[1] = sx - sourceWidth
       /\ (0 <= sx /\ sx < sourceWidth) => at[1] = sx
       /\ (-sourceWidth <= sx /\ sx < 2 * sourceWidth) => (0 <= at[1] /\ at[1] < sourceWidth)
       /\ at[2] = lastCall.source.y
       /\ DestinationPixel(lastCall.result.data, lastCall.x) = BilinearInterpolate(image, at)

\* C20 witness: a source X more than one image width left of the image was
\* wrapped once and is still left of the image, and the source Y was off
\* the image and left as it was.
C20_Witness ==
  /\ lastCall.method = "pixelBody"
  /\ ~ProjectionsBlank
  /\ lastCall.source.x < -(lastCall.sourceImageData.width * CoordDen)
  /\ lastCall.result.sourceCoordinates[1] < 0
  /\ lastCall.source.y < 0
  /\ lastCall.result.sourceCoordinates[2] = lastCall.source.y

\* the values of channel k (1 .. 4) at the four corners the call read
CornerValues(call, k) ==
  {call.image.data[call.corners[c] + k] : c \in 1 .. 4}

\* C35: for every buffer of at least one pixel with channels in 0 .. 255 and
\* every coordinate pair, inside the buffer or not, bilinearInterpolate
\* reads only indices from 0 up to, not including, width * height * 4, and
\* returns four integers in 0 .. 255, each between the least and the
\* greatest of the four corner values of its channel.
C35_ReadsInsideAndBlendsBetween ==
  lastCall.method = "bilinearInterpolate" =>
    /\ \A index \in lastCall.reads :
         0 <= index /\ index < lastCall.image.width * lastCall.image.height * 4
    /\ Len(lastCall.result) = 4
    /\ \A k \in 1 .. 4 :
         /\ lastCall.result[k] \in 0 .. 255
         /\ \E lo, hi \in CornerValues(lastCall, k) :
              lo <= lastCall.result[k] /\ lastCall.result[k] <= hi

\* C35 witness: a call left of the buffer, at a fractional position between
\* two rows, whose first channel lies strictly between its corner values.
C35_Witness ==
  /\ lastCall.method = "bilinearInterpolate"
  /\ lastCall.coordinates[1] < 0
  /\ lastCall.coordinates[1] % CoordDen # 0
  /\ lastCall.coordinates[2] % CoordDen # 0
  /\ lastCall.result[1] \in 1 .. 254
  /\ Cardinality(lastCall.reads) = 8

\* C36: the destination is as wide as the source image and its height is
\* naturalHeight * destWidth / naturalWidth rounded up to an integer, the
\* natural box being the one bounds discovery returned; for a valid box and
\* a source at least one pixel wide the height and the number of pixels of
\* the destination are at least 1.
C36_DestinationDimensions ==
  lastCall.method = "configureProjection" =>
    LET unit == ComputeUnitScaleDimensions(lastCall.points)
        destWidth == lastCall.result.destWidth
        destHeight == lastCall.result.destHeight
    IN /\ unit.width > 0 /\ unit.height > 0
       /\ destWidth = lastCall.sourceWidth
       /\ destHeight * unit.width >= unit.height * destWidth
       /\ (destHeight - 1) * unit.width < unit.height * destWidth
       /\ destHeight >= 1
       /\ destWidth * destHeight >= 1

\* C36 witness: the natural box is wider than high and the quotient is not
\* an integer; the one destination row comes from the rounding up.
C36_Witness ==
  /\ lastCall.method = "configureProjection"
  /\ lastCall.result.destHeight = 1
  /\ LET unit == ComputeUnitScaleDimensions(lastCall.points)
     IN unit.width > unit.height * lastCall.result.destWidth

\* C39: for min <= max and any value, finite or infinite, clamp returns min
\* when the value is below min, max when it is above max and the value
\* itself otherwise; the result lies in [min, max] and clamping it again
\* returns it unchanged.
C39_ClampIntoRange ==
  lastCall.method = "clamp" =>
    /\ lastCall.result =
         IF lastCall.value < lastCall.min THEN lastCall.min
         ELSE IF lastCall.value > lastCall.max THEN lastCall.max
         ELSE lastCall.value
    /\ lastCall.min <= lastCall.result
    /\ lastCall.result <= lastCall.max
    /\ lastCall.again = lastCall.result

\* C39 witness: Infinity was clamped to a finite upper limit.
C39_Witness ==
  /\ lastCall.method = "clamp"
  /\ lastCall.value = Infinity
  /\ lastCall.max < Infinity
  /\ lastCall.min < lastCall.max
  /\ lastCall.result = lastCall.max

(***************************************************************************)
(* Properties of a running conversion (SpecRun).                           *)
(***************************************************************************)
\* this step ends operation o
Ends(o) == StateOf(o) = InProgress /\ manager'.heap[o].state # InProgress

\* C5: once the abort capability of the in-progress operation has been
\* invoked and the generator has yielded at least one chunk, no step takes
\* the operation to completed or failed: it stays in-progress until it
\* becomes aborted, wherever in the remaining rows and yields the request
\* arrived.
C5_AbortEndsAborted ==
  [][\A o \in Created :
       /\ task.op = o
       /\ StateOf(o) = InProgress
       /\ AbortRequested(o)
       /\ driver.chunks # <<>>
       => manager'.heap[o].state \in {InProgress, Aborted}]_vars

\* C5 witness: an operation was cancelled after a chunk of it had been
\* consumed, and is aborted.
C5_Witness ==
  \E o \in Created :
    /\ StateOf(o) = Aborted
    /\ AbortRequested(o)
    /\ manager.heap[o].onUpdateCalls >= 2

\* C6: an operation captures the image source at its start and never
\* changes the captured value; the step that ends it failed or aborted sets
\* the image source to the captured value, and the step that ends it
\* completed leaves the image source as it is, which is the frame of the
\* last chunk the generator yielded.
C6_EndRestoresPreviousSrc ==
  [][/\ Len(manager'.heap) = Len(manager.heap) + 1
        => manager'.heap[Len(manager'.heap)].previousImageSrc = manager.imageSrc
     /\ \A o \in Created :
          /\ manager'.heap[o].previousImageSrc = manager.heap[o].previousImageSrc
          /\ Ends(o) =>
               IF manager'.heap[o].state = Completed
               THEN /\ manager'.imageSrc = manager.imageSrc
                    /\ manager'.imageSrc = FrameSrc(o, Last(driver.chunks))
               ELSE manager'.imageSrc = manager.heap[o].previousImageSrc]_vars

\* C6 witness: operation 2, started on the frame operation 1 completed with,
\* had a partial frame written to the image and then ended failed or
\* aborted; the image shows operation 1's frame again.
C6_Witness ==
  /\ Len(manager.heap) = 2
  /\ StateOf(1) = Completed
  /\ StateOf(2) \in {Failed, Aborted}
  /\ manager.heap[2].onUpdateCalls >= 2
  /\ manager.heap[2].previousImageSrc # PageImageSrc
  /\ manager.imageSrc = manager.heap[2].previousImageSrc

\* C7: the manager's original source is the page's image source for ever,
\* and a click while the current operation is completed sets the image
\* source to it, empties the operation list and hides the indicator.
C7_RevertRestoresOriginal ==
  /\ [](manager.originalImageSrc = PageImageSrc)
  /\ [][/\ UserClick
        /\ manager.operations # <<>>
        /\ StateOf(Last(manager.operations)) = Completed
        => /\ manager'.imageSrc = PageImageSrc
           /\ manager'.operations = <<>>
           /\ manager'.className = "state-hidden"]_vars

\* C7 witness: two conversions completed one after the other and the click
\* reverted the image to the page's source.
C7_Witness ==
  /\ Len(manager.heap) = 2
  /\ StateOf(1) = Completed
  /\ StateOf(2) = Completed
  /\ manager.heap[2].previousImageSrc # PageImageSrc
  /\ manager.operations = <<>>
  /\ manager.imageSrc = PageImageSrc
  /\ manager.className = "state-hidden"

\* C8: when the generator threw, the consumer's ending step makes the
\* operation failed, restores the image source captured at its start, shows
\* the error indicator and creates no operation; and while a failed
\* operation is the current one, only a click or a new request changes the
\* operation list or creates an operation.
C8_FailureShowsError ==
  /\ [][ConsumerEnd /\ driver.pc = "threw"
        => /\ manager'.heap[task.op].state = Failed
           /\ manager'.imageSrc = manager.heap[task.op].previousImageSrc
           /\ manager'.className = "state-error"
           /\ manager'.operations = manager.operations
           /\ Last(manager'.operations) = task.op
           /\ Len(manager'.heap) = Len(manager.heap)]_vars
  /\ [][/\ manager.operations # <<>>
        /\ StateOf(Last(manager.operations)) = Failed
        /\ ~(UserClick \/ Request)
        => /\ manager'.operations = manager.operations
           /\ manager'.heap = manager.heap
           /\ manager'.className = "state-error"]_vars

\* C8 witness: the generator threw after a partial frame had been shown;
\* the operation is failed and current, the image is back at the source the
\* operation started from, and the error indicator is shown.
C8_Witness ==
  /\ manager.operations # <<>>
  /\ StateOf(Last(manager.operations)) = Failed
  /\ manager.heap[Last(manager.operations)].onUpdateCalls >= 2
  /\ manager.imageSrc = manager.heap[Last(manager.operations)].previousImageSrc
  /\ manager.className = "state-error"
  /\ task = IdleTask

\* C9: from the moment cancellation of the running operation is requested,
\* no step of its generator writes a destination pixel, materialises the
\* surface or yields a chunk.
C9_NoWorkAfterAbort ==
  [][/\ task.op # 0
     /\ task'.op = task.op
     /\ driver.pc # "none"
     /\ AbortRequested(task.op)
     => /\ driver'.data = driver.data
        /\ driver'.puts = driver.puts
        /\ driver'.chunks = driver.chunks]_vars

\* C10: every chunk carries totalPixels = destWidth * destHeight; a
\* generator suspended at its final yield, and one that has returned without
\* cancellation, has yielded a last chunk with pixelsCalculated =
\* totalPixels, however little time passed since the previous yield.
C10_FinalChunkComplete ==
  driver.pc \notin {"none", "threw"} =>
    /\ driver.totalPixels = driver.destWidth * driver.destHeight
    /\ \A i \in 1 .. Len(driver.chunks) :
         driver.chunks[i].totalPixels = driver.totalPixels
    /\ (\/ driver.pc = "yielded-final"
        \/ driver.pc = "returned" /\ ~AbortRequested(task.op))
       => /\ driver.chunks # <<>>
          /\ Last(driver.chunks).pixelsCalculated = driver.totalPixels

\* C10 witness: the generator returned without cancellation having yielded
\* one chunk only, less than the yield interval after it started.
C10_Witness ==
  /\ driver.pc = "returned"
  /\ ~AbortRequested(task.op)
  /\ Len(driver.chunks) = 1
  /\ driver.currentTime - driver.lastYieldTime < YieldIntervalMs
  /\ driver.totalPixels > 1

\* C11: a failure of a precondition (invalid discovered bounds, a target
\* projection without an inverse, a surface without a 2d context) is raised
\* before the pixel loop: the generator that threw it has processed no
\* destination pixel, allocated no pixel to write, materialised nothing and
\* yielded no chunk, and the operation has seen no progress update; and a
\* generator that has processed a pixel carries no such failure.
C11_PreconditionsBeforeLoop ==
  /\ driver.error \in PreconditionErrors =>
       /\ driver.pc = "threw"
       /\ driver.pixelsCalculated = 0
       /\ driver.data = <<>>
       /\ driver.puts = 0
       /\ driver.chunks = <<>>
       /\ manager.heap[task.op].onUpdateCalls = 1
  /\ driver.pixelsCalculated > 0 => driver.error \in {"none", "unexpected"}

\* C11 witness: the run's surface had no 2d context, the bounds and the
\* inverse being fine, and the generator threw for it.
C11_Witness ==
  /\ driver.pc = "threw"
  /\ driver.error = "canvas must have 2d context"
  /\ task.pc = "running"

\* C22: the fractions delivered to an operation's progress callback start
\* with 0, continue with pixelsCalculated / totalPixels of each chunk the
\* generator yields, never decrease, and stay between 0 and 1.
C22_ProgressMonotonic ==
  /\ [](\A o \in Created :
          /\ ProgressOf(o) # NoFraction
          /\ FractionLeq(Zero, ProgressOf(o))
          /\ FractionLeq(ProgressOf(o), One))
  /\ [][/\ Len(manager'.heap) = Len(manager.heap) + 1
           => manager'.heap[Len(manager'.heap)].progress = Zero
        /\ \A o \in Created :
             /\ FractionLeq(ProgressOf(o), manager'.heap[o].progress)
             /\ manager'.heap[o].onUpdateCalls > manager.heap[o].onUpdateCalls
                => /\ task.pc = "chunk"
                   /\ task.op = o
                   /\ FractionLeq(manager'.heap[o].progress,
                                  Fraction(Last(driver.chunks).pixelsCalculated,
                                           Last(driver.chunks).totalPixels))
                   /\ FractionLeq(Fraction(Last(driver.chunks).pixelsCalculated,
                                           Last(driver.chunks).totalPixels),
                                  manager'.heap[o].progress)]_vars

\* C22 witness: an operation has received 0, then the fraction of a chunk
\* yielded part of the way, then 1.
C22_Witness ==
  /\ task.op # 0
  /\ Len(driver.chunks) = 2
  /\ driver.chunks[1].pixelsCalculated < driver.chunks[2].pixelsCalculated
  /\ manager.heap[task.op].onUpdateCalls = 3
  /\ ProgressOf(task.op) = One

\* the generator of the running conversion has been called / has finished
Started == driver.pc # "none"
Finished == driver.pc \in {"returned", "threw"}

\* C23: resumed after every yield, a run of reproject finishes; it visits
\* the destination pixels one by one in increasing row-major position, so
\* each at most once and at most destWidth * destHeight in all; it yields at
\* most destHeight + 1 chunks, and at least one when it returns without
\* cancellation; and once finished it yields no more.
C23_DriverFinite ==
  /\ (Started ~> Finished)
  /\ [](Started =>
          /\ driver.totalPixels = driver.destWidth * driver.destHeight
          /\ driver.pixelsCalculated <= driver.totalPixels
          /\ Len(driver.chunks) <= driver.destHeight + 1
          /\ driver.pc = "pixel" =>
                /\ driver.x < driver.destWidth
                /\ driver.y < driver.destHeight
                /\ driver.pixelsCalculated = driver.y * driver.destWidth + driver.x
          /\ driver.pc = "returned" /\ ~AbortRequested(task.op) =>
                Len(driver.chunks) >= 1)
  /\ [][/\ DriverPixel => driver'.pixelsCalculated = driver.pixelsCalculated + 1
        /\ Finished => Len(driver'.chunks) <= Len(driver.chunks)]_vars

\* C23 witness: a run over two rows has returned after yielding at the end
\* of each row and once more after the loop.
C23_Witness ==
  /\ driver.pc = "returned"
  /\ driver.destHeight = 2
  /\ Len(driver.chunks) = driver.destHeight + 1
  /\ driver.pixelsCalculated = driver.totalPixels

\* this step yields a chunk / a chunk from inside the loop
Yields == Len(driver'.chunks) = Len(driver.chunks) + 1
YieldsInLoop == Yields /\ driver'.pc = "yielded-row"

\* C24: a chunk is yielded from inside the loop only by the step that ends
\* a row, all pixels of the row visited, and exactly when the clock read
\* there is at least 1000 ms after lastYieldTime; otherwise that step goes on
\* to the next row, or leaves the loop, without suspending.  lastYieldTime is
\* the clock reading of the loop's start until the generator is resumed
\* after such a yield, which sets it to the reading that yield was decided on.
C24_ThrottledYields ==
  /\ [][/\ YieldsInLoop =>
             /\ driver.pc = "row-end"
             /\ driver.x = 0
             /\ driver.pixelsCalculated = (driver.y + 1) * driver.destWidth
        /\ driver.pc = "row-end" /\ driver'.pc # "none" =>
             IF driver'.currentTime - driver.lastYieldTime >= 1000
             THEN /\ YieldsInLoop
                  /\ task'.pc = "chunk"
             ELSE /\ driver'.chunks = driver.chunks
                  /\ driver'.puts = driver.puts
                  /\ task'.pc = "running"
                  /\ driver'.y = driver.y + 1
                  /\ driver'.pc = IF driver'.y < driver.destHeight
                                  THEN "pixel" ELSE "after-loop"
        /\ Started /\ driver'.pc # "none" =>
             driver'.lastYieldTime =
               IF driver.pc = "yielded-row" /\ driver'.pc # "yielded-row"
               THEN driver.currentTime ELSE driver.lastYieldTime]_vars
  /\ [](driver.pc = "pixel" /\ driver.chunks = <<>> => driver.lastYieldTime = 0)

\* C24 witness: the generator yielded at the end of its first row, was
\* resumed, and at the end of its second row, less than 1000 ms after the
\* reading of that yield, went on without yielding.
C24_Witness ==
  /\ driver.pc = "after-loop"
  /\ Len(driver.chunks) = 1
  /\ driver.lastYieldTime >= 1000
  /\ driver.currentTime > driver.lastYieldTime
  /\ driver.currentTime - driver.lastYieldTime < 1000

\* the projection of the run gives a sample for the i-th destination pixel
\* in row-major order
SampledAt(i) ==
  ~(driver.projection.blankEvery > 0 /\ i % driver.projection.blankEvery = 0)

\* C28: the generator decides the destination pixels in row-major order,
\* none twice, and counts each pixel it visits, written or left blank.  At a
\* yield issued after row y the chunk carries pixelsCalculated =
\* (y + 1) * destWidth; the pixels of rows 0 .. y, and no others, have been
\* decided: each holds its sample, or the initial blank when the projection
\* gives none; and every pixel of the rows after y holds the initial blank.
C28_RowMajorCounted ==
  Started =>
    /\ \A k \in 1 .. Len(driver.decided) : driver.decided[k] = k
    /\ Len(driver.decided) <= driver.pixelsCalculated
    /\ driver.pixelsCalculated <= Len(driver.decided) + 1
    /\ driver.pc \in {"pixel", "row-end", "yielded-row", "after-loop", "yielded-final"}
         => driver.pixelsCalculated = Len(driver.decided)
    /\ driver.pc = "yielded-row" =>
         LET done == (driver.y + 1) * driver.destWidth
         IN /\ Last(driver.chunks).pixelsCalculated = done
            /\ driver.pixelsCalculated = done
            /\ Len(driver.decided) = done
            /\ \A i \in 1 .. done :
                 driver.data[i] = IF SampledAt(i) THEN 1 ELSE 0
            /\ \A i \in done + 1 .. driver.totalPixels : driver.data[i] = 0

\* C28 witness: the generator is suspended at the yield after the first of
\* two rows; one pixel of that row was written and the other left blank.
C28_Witness ==
  /\ driver.pc = "yielded-row"
  /\ driver.y = 0
  /\ driver.destWidth = 2
  /\ driver.destHeight = 2
  /\ driver.data = <<1, 0, 0, 0>>
  /\ Last(driver.chunks).pixelsCalculated = 2

AbortPending(o) == StateOf(o) = InProgress /\ AbortRequested(o)

\* C30: a click while the current operation is in-progress invokes its
\* abort capability and leaves the states of all operations, the operation
\* list and the image source as they were; from then until the consumer
\* ends the operation it stays in-progress and current, and a start request
\* is rejected with an AssertionError, creating nothing.
C30_CancelPendingStaysInProgress ==
  [][/\ UserClick /\ Busy(manager) =>
          /\ manager'.operations = manager.operations
          /\ StatesOf(manager') = StatesOf(manager)
          /\ manager'.heap[Last(manager.operations)].abortRequested
          /\ manager'.imageSrc = manager.imageSrc
          /\ manager'.thrown = "none"
     /\ \A o \in Created :
          AbortPending(o) =>
            /\ o = Last(manager.operations)
            /\ ~ConsumerEnd =>
                 /\ manager'.heap[o].state = InProgress
                 /\ manager'.operations = manager.operations
            /\ Request =>
                 /\ manager'.thrown = "AssertionError"
                 /\ manager'.heap = manager.heap
                 /\ manager'.imageSrc = manager.imageSrc
                 /\ task' = task]_vars

\* C30 witness: the user clicked cancel while the consumer awaited its
\* timer after a chunk, and a start request arriving before the generator
\* was resumed has been rejected; the operation is still in-progress.
C30_Witness ==
  /\ task.pc = "awaiting"
  /\ AbortPending(task.op)
  /\ manager.thrown = "AssertionError"
  /\ manager.operations = <<task.op>>
  /\ manager.imageSrc = FrameSrc(task.op, Last(driver.chunks))

\* the positions of the list that hold a completed operation
CompletedPositions(m) ==
  {i \in 1 .. Len(m.operations) : m.heap[m.operations[i]].state = Completed}

\* src is the final frame of operation o: all pixels of its canvas computed
IsResultOf(src, o) == Len(src) = 3 /\ src[1] = o /\ src[2] = src[3]

\* the most recent completed operation of the list
LastCompleted(m) ==
  LET i == CHOOSE i \in CompletedPositions(m) :
             \A j \in CompletedPositions(m) : j <= i
  IN m.operations[i]

\* C34: whenever no operation is in progress the image source is the result
\* of the most recent completed operation still in the list, or the
\* original source when the list holds no completed operation; with an
\* empty list the image shows the original.
C34_ImageShowsLastCompleted ==
  ~Busy(manager) =>
    IF CompletedPositions(manager) = {}
    THEN manager.imageSrc = manager.originalImageSrc
    ELSE IsResultOf(manager.imageSrc, LastCompleted(manager))

\* C34 witness: the second operation displayed a frame and failed; the
\* image shows again the result of the completed first operation.
C34_Witness ==
  /\ Len(manager.heap) = 2
  /\ manager.operations = <<1, 2>>
  /\ StateOf(1) = Completed
  /\ StateOf(2) = Failed
  /\ manager.heap[2].onUpdateCalls >= 2
  /\ IsResultOf(manager.imageSrc, 1)

====
